---- MODULE Spec2Model ----
(***************************************************************************)
(* A model of the text-analytics extractors of backend/app.py:             *)
(*   extract_conflict_statistics, extract_trending_keywords,               *)
(*   extract_geographic_hotspots and generate_free_summary.                *)
(* Article titles and texts are strings; Python's substring test, lower(), *)
(* strip() and the regular expressions of the code are computed character  *)
(* by character.  Each extractor is a small state machine: a call, one     *)
(* step per article of its for-loop, and the return.  The article list is  *)
(* an input: its length is drawn at the call and each article when the     *)
(* loop reaches it.                                                        *)
(***************************************************************************)
EXTENDS Integers, Sequences, FiniteSets, TLC

VARIABLES
    pc,               \* "idle", "stats_loop", "stats_done", "kw_loop", "kw_done", "geo_loop", "geo_done",
                      \* "sum_loop", "sum_done"; "kw_raised": an exception left the call;
                      \* "shared": get_news runs the four on one list; "repeat": calls in sequence
    n_articles,       \* len(articles) of the running call
    i,                \* number of articles the running loop has processed
    article,          \* the loop variable: the article processed last
    stats,            \* extract_conflict_statistics: the stats dict
    article_deaths,   \* extract_conflict_statistics: local of the last iteration
    article_injuries, \* extract_conflict_statistics: local of the last iteration
    max_keywords,     \* extract_trending_keywords: the parameter
    all_text,         \* extract_trending_keywords: the combined text
    kw_path,          \* extract_trending_keywords: which return statement was taken
    kw_result,        \* extract_trending_keywords: the returned list
    seen,             \* extract_geographic_hotspots: the articles the loop has read, in order
    hotspots,         \* extract_geographic_hotspots: the hotspots list
    geo_path,         \* extract_geographic_hotspots: "none", "default" or "enhanced"
    titles,           \* generate_free_summary: the titles list
    text_list,        \* generate_free_summary: the all_text list
    target_sentences, \* generate_free_summary: the parameter
    sum_path,         \* generate_free_summary: which return statement was taken
    summary,          \* generate_free_summary: the returned string
    candidates,       \* extract_key_sentences_multimethod: sentences, the candidate sentences
    tfidf_tenths,     \* extract_key_sentences_multimethod: tfidf_scores, in tenths
    selected,         \* generate_free_summary: key_sentences
    intro,            \* generate_free_summary: context_intro, what generate_context_intro returned
    articles,         \* get_news: the article list handed to the four extractors
    given,            \* get_news: the value of the list when the extractors were started
    progress,         \* get_news: for each extractor, the articles its loop has read
    finished,         \* get_news: the extractors that have returned
    live,             \* the default_hotspots and fallback_keywords objects the last calls built
    last_call,        \* the last call made: extractor, list, returned value
    first_result,     \* for each extractor, what its first call on the tracked list returned
    tracked,          \* the article list whose calls are compared
    scoring,          \* score_sentences_tfidf of this run: the scores it gives, in tenths
    run_a,            \* a call of an extractor: its article list and its result
    run_b,            \* a second call of it: its article list and its result
    run_ab,           \* a call of it on the list of run_a followed by that of run_b
    wire,             \* handler.do_GET: what has been written to wfile, in order
    buffer,           \* handler.do_GET: _headers_buffer, the lines not yet flushed
    raised            \* handler.do_GET: the exception raised in the try block, if any

vars == <<pc, n_articles, i, article, stats, article_deaths, article_injuries,
          max_keywords, all_text, kw_path, kw_result, seen, hotspots, geo_path,
          titles, text_list, target_sentences, sum_path, summary,
          candidates, tfidf_tenths, selected, intro,
          articles, given, progress, finished, live, last_call, first_result, tracked,
          scoring, run_a, run_b, run_ab, wire, buffer, raised>>

statsVars == <<stats, article_deaths, article_injuries>>
kwVars    == <<max_keywords, all_text, kw_path, kw_result>>
geoVars   == <<seen, hotspots, geo_path>>
sumVars   == <<titles, text_list, target_sentences, sum_path, summary,
               candidates, tfidf_tenths, selected, intro>>
sharedVars == <<articles, given, progress, finished>>
repeatVars == <<live, last_call, first_result, tracked>>
relVars    == <<run_a, run_b, run_ab>>
httpVars   == <<wire, buffer, raised>>
callerVars == <<sharedVars, repeatVars, scoring, relVars, httpVars>>

\* The longest article list a call is given.
MaxArticles == 3

-----------------------------------------------------------------------------
(* Strings, as Python handles them *)

CharAt(s, k) == IF k >= 1 /\ k <= Len(s) THEN SubSeq(s, k, k) ELSE ""

IsDigit(c) == c \in {"0", "1", "2", "3", "4", "5", "6", "7", "8", "9"}

\* \s of the re module on the characters the inputs use.
IsSpace(c) == c \in {" ", "\t", "\n"}

\* str.lower() on one character.
UpperChars == <<"A", "B", "C", "D", "E", "F", "G", "H", "I", "J", "K", "L", "M",
                "N", "O", "P", "Q", "R", "S", "T", "U", "V", "W", "X", "Y", "Z">>
LowerChars == <<"a", "b", "c", "d", "e", "f", "g", "h", "i", "j", "k", "l", "m",
                "n", "o", "p", "q", "r", "s", "t", "u", "v", "w", "x", "y", "z">>

LowerChar(c) ==
    IF \E k \in 1..Len(UpperChars) : UpperChars[k] = c
    THEN LowerChars[CHOOSE k \in 1..Len(UpperChars) : UpperChars[k] = c]
    ELSE c

\* s[k-1:].lower(), the two halves of the range one after the other.
RECURSIVE LowerFrom(_, _)
LowerFrom(s, k) ==
    IF k > Len(s) THEN ""
    ELSE IF k = Len(s) THEN LowerChar(CharAt(s, k))
    ELSE LowerFrom(SubSeq(s, 1, (k + Len(s)) \div 2), k)
         \o LowerFrom(s, ((k + Len(s)) \div 2) + 1)

\* s.lower()
Lower(s) == LowerFrom(s, 1)

\* s[k-1:].startswith(w), k counted from 1
StartsWithAt(s, k, w) ==
    /\ k >= 1
    /\ k + Len(w) - 1 <= Len(s)
    /\ SubSeq(s, k, k + Len(w) - 1) = w

\* needle in hay
Contains(hay, needle) ==
    \E k \in 1..(Len(hay) - Len(needle) + 1) : StartsWithAt(hay, k, needle)

\* The first position at or after k that holds no digit: the end of a greedy \d*.
RECURSIVE DigitsEnd(_, _)
DigitsEnd(s, k) == IF IsDigit(CharAt(s, k)) THEN DigitsEnd(s, k + 1) ELSE k

\* The first position at or after k that holds no white space: the end of a greedy \s*.
RECURSIVE SpaceEnd(_, _)
SpaceEnd(s, k) == IF IsSpace(CharAt(s, k)) THEN SpaceEnd(s, k + 1) ELSE k

DigitValue(c) == CHOOSE d \in 0..9 : <<"0", "1", "2", "3", "4", "5", "6", "7", "8", "9">>[d + 1] = c

\* int(s) of a string of digits
RECURSIVE ParseInt(_)
ParseInt(s) ==
    IF Len(s) = 0 THEN 0
    ELSE 10 * ParseInt(SubSeq(s, 1, Len(s) - 1)) + DigitValue(CharAt(s, Len(s)))

-----------------------------------------------------------------------------
(* The regular expressions of extract_conflict_statistics.  A casualty     *)
(* pattern is an alternation of forms, each of the shape                   *)
(*     [(?:prefix|...)\s+] (number) [\s+ (?:people\s+|children\s+)? (?:kws)] *)
(* where (number) is (\d+) or the alternation of the number words.  A      *)
(* match is the position after it and the text of its group; end = 0       *)
(* means no match at that position.                                        *)

NoMatch == [end |-> 0, cap |-> ""]

\* (?:kws[j]|kws[j+1]|...) at k, the alternatives tried in order; 0 if none
\* matches.  No alternative of a list of the code is a prefix of another one,
\* so at most one of them matches at k.
RECURSIVE AltEnd(_, _, _, _)
AltEnd(s, k, kws, j) ==
    IF j > Len(kws) THEN 0
    ELSE IF StartsWithAt(s, k, kws[j]) THEN k + Len(kws[j])
    ELSE AltEnd(s, k, kws, j + 1)

\* w\s+(?:kws) at k
WordThenKw(s, k, w, kws) ==
    IF StartsWithAt(s, k, w) /\ IsSpace(CharAt(s, k + Len(w)))
    THEN AltEnd(s, SpaceEnd(s, k + Len(w)), kws, 1) ELSE 0

FirstNonZero(x, y, z) == IF x # 0 THEN x ELSE IF y # 0 THEN y ELSE z

\* (?:people\s+|children\s+)?(?:kws) at k: the optional group is tried first,
\* and given up when the keyword does not follow it.
OptPeopleThenKw(s, k, kws) ==
    FirstNonZero(WordThenKw(s, k, "people", kws),
                 WordThenKw(s, k, "children", kws),
                 AltEnd(s, k, kws, 1))

\* The alternation (zero|one|...|twenty) of the word patterns, in its order.
number_words == <<"zero", "one", "two", "three", "four", "five", "six", "seven",
                  "eight", "nine", "ten", "eleven", "twelve", "thirteen", "fourteen",
                  "fifteen", "sixteen", "seventeen", "eighteen", "nineteen", "twenty">>

\* The ends of the ways the number group can match at k, in the order the
\* engine tries them: (\d+) is greedy (a shorter run is followed by a digit,
\* which no pattern accepts next), the words are tried left to right.
RECURSIVE WordEnds(_, _, _)
WordEnds(s, k, j) ==
    IF j > Len(number_words) THEN <<>>
    ELSE (IF StartsWithAt(s, k, number_words[j]) THEN <<k + Len(number_words[j])>> ELSE <<>>)
         \o WordEnds(s, k, j + 1)

NumberEnds(s, k, num) ==
    IF k = 0 THEN <<>>
    ELSE IF num = "words" THEN WordEnds(s, k, 1)
    ELSE IF IsDigit(CharAt(s, k)) THEN <<DigitsEnd(s, k)>>
    ELSE <<>>

\* What follows the number at e: nothing, or \s+(?:people\s+|children\s+)?(?:kws),
\* or \s+(?:kws).  The position after it, 0 if it does not match.
AfterNumber(s, e, f) ==
    IF Len(f.kws) = 0 THEN e
    ELSE IF ~IsSpace(CharAt(s, e)) THEN 0
    ELSE IF f.people THEN OptPeopleThenKw(s, SpaceEnd(s, e), f.kws)
    ELSE AltEnd(s, SpaceEnd(s, e), f.kws, 1)

\* The position of the number of form f in a match that starts at k: k itself,
\* or the position after (?:prefix)\s+; 0 if the prefix does not match.
PrefixEnd(s, k, e) == IF e # 0 /\ IsSpace(CharAt(s, e)) THEN SpaceEnd(s, e) ELSE 0

NumberStart(s, k, f) ==
    IF Len(f.prefix) = 0 THEN k ELSE PrefixEnd(s, k, AltEnd(s, k, f.prefix, 1))

\* The first way to match the number, from position n on, that the rest of
\* the form accepts.
RECURSIVE FirstEnd(_, _, _, _, _)
TryEnd(s, n, f, ends, c, e) ==
    IF e # 0 THEN [end |-> e, cap |-> SubSeq(s, n, ends[c] - 1)]
    ELSE FirstEnd(s, n, f, ends, c + 1)

FirstEnd(s, n, f, ends, c) ==
    IF c > Len(ends) THEN NoMatch
    ELSE TryEnd(s, n, f, ends, c, AfterNumber(s, ends[c], f))

MatchFormFrom(s, n, f) == FirstEnd(s, n, f, NumberEnds(s, n, f.num), 1)

\* Form f at k
MatchForm(s, k, f) == MatchFormFrom(s, NumberStart(s, k, f), f)

\* (\d+(?:\.\d+)?)\s*(?:billion|million) at k.  d is the end of \d+ and fr
\* the end of the optional fraction.
EconomicMatch(s, k, fr, e) ==
    IF e # 0 THEN [end |-> e, cap |-> SubSeq(s, k, fr - 1)] ELSE NoMatch

EconomicFrom(s, k, fr) ==
    EconomicMatch(s, k, fr, AltEnd(s, SpaceEnd(s, fr), <<"billion", "million">>, 1))

FractionEnd(s, d) ==
    IF CharAt(s, d) = "." /\ IsDigit(CharAt(s, d + 1)) THEN DigitsEnd(s, d + 1) ELSE d

MatchEconomic(s, k) ==
    IF IsDigit(CharAt(s, k)) THEN EconomicFrom(s, k, FractionEnd(s, DigitsEnd(s, k)))
    ELSE NoMatch

\* The alternatives of pattern p at k, tried in order.
RECURSIVE FirstForm(_, _, _, _)
TryForm(p, s, k, j, m) == IF m.end # 0 THEN m ELSE FirstForm(p, s, k, j + 1)

FirstForm(p, s, k, j) ==
    IF j > Len(p) THEN NoMatch ELSE TryForm(p, s, k, j, MatchForm(s, k, p[j]))

Match(p, s, k) ==
    IF p = "economic" THEN MatchEconomic(s, k) ELSE FirstForm(p, s, k, 1)

\* re.findall(p, s): the groups of the matches from left to right, each search
\* starting where the previous match ended.
RECURSIVE FindAllFrom(_, _, _)
FindNext(p, s, k, m) == <<m.cap>> \o FindAllFrom(p, s, m.end)

\* The positions from k on where p matches.
MatchStarts(p, s, k) == {n \in k..Len(s) : Match(p, s, n).end # 0}

FirstStart(starts) == CHOOSE n \in starts : \A o \in starts : n <= o

FindAllFrom(p, s, k) ==
    IF MatchStarts(p, s, k) = {} THEN <<>>
    ELSE FindNext(p, s, FirstStart(MatchStarts(p, s, k)),
                  Match(p, s, FirstStart(MatchStarts(p, s, k))))

FindAll(p, s) == FindAllFrom(p, s, 1)

-----------------------------------------------------------------------------
(* extract_conflict_statistics *)

death_keywords      == <<"killed", "dead", "deaths", "died", "fatalities", "casualties">>
injury_keywords     == <<"injured", "wounded", "hurt", "casualties">>
military_keywords   == <<"missile", "drone", "attack", "strike", "firing", "shelling",
                         "aircraft", "military operation", "bomb", "blast", "explosion">>
diplomatic_keywords == <<"meeting", "talks", "summit", "minister", "ambassador",
                         "diplomatic", "negotiation", "dialogue">>
border_keywords     == <<"border", "loc", "line of control", "ceasefire", "violation",
                         "infiltration", "cross-border">>

\* (\d+)\s+(?:people\s+|children\s+)?(?:killed|dead|...)
death_pattern1 ==
    <<[prefix |-> <<>>, num |-> "digits", people |-> TRUE, kws |-> death_keywords]>>
\* (?:killed|dead|...)\s+(\d+)
death_pattern2 ==
    <<[prefix |-> death_keywords, num |-> "digits", people |-> FALSE, kws |-> <<>>]>>
\* (?:death toll of|toll of|death count of)\s+(\d+)|(\d+)\s+deaths
death_pattern3 ==
    <<[prefix |-> <<"death toll of", "toll of", "death count of">>, num |-> "digits",
       people |-> FALSE, kws |-> <<>>],
      [prefix |-> <<>>, num |-> "digits", people |-> FALSE, kws |-> <<"deaths">>]>>
\* at least\s+(\d+)\s+(?:killed|dead|...)
death_pattern4 ==
    <<[prefix |-> <<"at least">>, num |-> "digits", people |-> FALSE, kws |-> death_keywords]>>
\* (zero|...|twenty)\s+(?:people\s+|children\s+)?(?:killed|dead|...)
death_pattern5 ==
    <<[prefix |-> <<>>, num |-> "words", people |-> TRUE, kws |-> death_keywords]>>
\* at least\s+(zero|...|twenty)\s+(?:killed|dead|...)
death_pattern6 ==
    <<[prefix |-> <<"at least">>, num |-> "words", people |-> FALSE, kws |-> death_keywords]>>
\* (\d+)\s+(?:people\s+|children\s+)?(?:injured|wounded|...)
injury_pattern1 ==
    <<[prefix |-> <<>>, num |-> "digits", people |-> TRUE, kws |-> injury_keywords]>>
\* (?:injured|wounded|...)\s+(\d+)
injury_pattern2 ==
    <<[prefix |-> injury_keywords, num |-> "digits", people |-> FALSE, kws |-> <<>>]>>
\* at least\s+(\d+)\s+(?:injured|wounded|...)
injury_pattern3 ==
    <<[prefix |-> <<"at least">>, num |-> "digits", people |-> FALSE, kws |-> injury_keywords]>>
\* (zero|...|twenty)\s+(?:people\s+|children\s+)?(?:injured|wounded|...)
injury_pattern4 ==
    <<[prefix |-> <<>>, num |-> "words", people |-> TRUE, kws |-> injury_keywords]>>

\* The patterns the loop runs on each article, by the name of their result.
patterns ==
    [death_matches1   |-> death_pattern1,
     death_matches2   |-> death_pattern2,
     death_matches3   |-> death_pattern3,
     death_matches4   |-> death_pattern4,
     death_matches5   |-> death_pattern5,
     death_matches6   |-> death_pattern6,
     injury_matches1  |-> injury_pattern1,
     injury_matches2  |-> injury_pattern2,
     injury_matches3  |-> injury_pattern3,
     injury_matches4  |-> injury_pattern4,
     economic_matches |-> "economic"]

\* Every re.findall of one iteration on the combined text t.
Findings(t) == [name \in DOMAIN patterns |-> FindAll(patterns[name], t)]

\* A table that is off by one: 'one' |-> 2, ..., as a dict built from
\* enumerate(words, 1) would be.
WordIndex_OffByOne(w, found) ==
    IF found = {} THEN -1 ELSE (CHOOSE j \in found : TRUE)

\* word_to_num.get(word.lower(), None); -1 stands for None
WordIndex(w, found) ==
    IF found = {} THEN -1 ELSE (CHOOSE j \in found : TRUE) - 1

convert_word_to_number(word) ==
    WordIndex(word, {j \in 1..Len(number_words) : number_words[j] = Lower(word)})

\* for match in matches: article_count += int(match)
RECURSIVE SumDigitMatches(_)
SumDigitMatches(ms) ==
    IF Len(ms) = 0 THEN 0 ELSE ParseInt(Head(ms)) + SumDigitMatches(Tail(ms))

\* for word in matches: num = convert_word_to_number(word); added unless None
NumberOrZero(num) == IF num # -1 THEN num ELSE 0

RECURSIVE SumWordMatches(_)
SumWordMatches(ms) ==
    IF Len(ms) = 0 THEN 0
    ELSE NumberOrZero(convert_word_to_number(Head(ms))) + SumWordMatches(Tail(ms))

\* The matches of the "at least" patterns left out, their span being matched
\* by patterns 1 and 5 already.
ArticleDeaths_Deduplicated(m) ==
    SumDigitMatches(m.death_matches1 \o m.death_matches2 \o m.death_matches3)
    + SumWordMatches(m.death_matches5)

\* article_deaths: all_death_matches (patterns 1, 2, 4, then the groups of
\* pattern 3), then word_death_matches (patterns 5 and 6)
ArticleDeaths(m) ==
    SumDigitMatches(m.death_matches1 \o m.death_matches2 \o m.death_matches4
                    \o m.death_matches3)
    + SumWordMatches(m.death_matches5 \o m.death_matches6)

\* article_injuries: all_injury_matches (patterns 1, 2, 3), then injury_matches4
ArticleInjuries(m) ==
    SumDigitMatches(m.injury_matches1 \o m.injury_matches2 \o m.injury_matches3)
    + SumWordMatches(m.injury_matches4)

\* f"{title} {text}" of the lowered title and text
CombinedText(a) == Lower(a.title) \o " " \o Lower(a.text)

\* The loop without its break and its found flag: one increment per keyword.
CategoryIncrement_PerKeyword(keywords, t) ==
    Cardinality({j \in 1..Len(keywords) : Contains(t, keywords[j])})

\* for keyword in keywords: if keyword in combined_text: count once; break
CategoryIncrement(keywords, t) ==
    IF \E j \in 1..Len(keywords) : Contains(t, keywords[j]) THEN 1 ELSE 0

\* float(match) of digits with an optional fraction, as the decimal num / 10^scale
\* without trailing zeros in the fraction
RECURSIVE Normalize(_)
Normalize(f) ==
    IF f.scale > 0 /\ f.num % 10 = 0
    THEN Normalize([num |-> f.num \div 10, scale |-> f.scale - 1]) ELSE f

\* d is the position of the point, or Len(m) + 1 when there is none.
DecimalOf(m, d) ==
    Normalize([num   |-> ParseInt(SubSeq(m, 1, d - 1) \o SubSeq(m, d + 1, Len(m))),
               scale |-> IF d > Len(m) THEN 0 ELSE Len(m) - d])

ParseFloat(m) == DecimalOf(m, DigitsEnd(m, 1))

\* float(match) of each economic match
RECURSIVE EconomicFigures(_)
EconomicFigures(ms) ==
    IF Len(ms) = 0 THEN <<>> ELSE <<ParseFloat(Head(ms))>> \o EconomicFigures(Tail(ms))

\* The stats dict as constructed at the top of the function.
InitialStats ==
    [total_casualties    |-> 0,
     deaths              |-> 0,
     injuries            |-> 0,
     military_incidents  |-> 0,
     diplomatic_meetings |-> 0,
     border_violations   |-> 0,
     economic_impact     |-> <<>>,
     key_developments    |-> 0,
     recent_period       |-> "7 days"]

\* What one iteration of the loop reads off an article: the two casualty sums,
\* the three category increments and the economic figures.
AnalyseText(t, m) ==
    [deaths     |-> ArticleDeaths(m),
     injuries   |-> ArticleInjuries(m),
     military   |-> CategoryIncrement(military_keywords, t),
     diplomatic |-> CategoryIncrement(diplomatic_keywords, t),
     border     |-> CategoryIncrement(border_keywords, t),
     economic   |-> EconomicFigures(m.economic_matches)]

AnalyseCombined(t) == AnalyseText(t, Findings(t))

AnalyseArticle(a) == AnalyseCombined(CombinedText(a))

\* total_casualties fed from the deaths alone.
StatsAfterArticle_DeathsOnly(st, r) ==
    [st EXCEPT
        !.deaths              = @ + r.deaths,
        !.injuries            = @ + r.injuries,
        !.total_casualties    = @ + r.deaths,
        !.military_incidents  = @ + r.military,
        !.diplomatic_meetings = @ + r.diplomatic,
        !.border_violations   = @ + r.border,
        !.economic_impact     = @ \o r.economic,
        !.key_developments    = @ + 1]

\* The updates of the stats dict in one iteration, r being the analysis of the
\* article.
\* A figure the list already holds is not appended again.
StatsAfterArticle_FiguresOnce(st, r) ==
    [st EXCEPT
        !.deaths              = @ + r.deaths,
        !.injuries            = @ + r.injuries,
        !.total_casualties    = @ + r.deaths + r.injuries,
        !.military_incidents  = @ + r.military,
        !.diplomatic_meetings = @ + r.diplomatic,
        !.border_violations   = @ + r.border,
        !.economic_impact     =
            @ \o SelectSeq(r.economic,
                           LAMBDA f : \A j \in 1..Len(st.economic_impact) :
                                         st.economic_impact[j] # f),
        !.key_developments    = @ + 1]

StatsAfterArticle(st, r) ==
    [st EXCEPT
        !.deaths              = @ + r.deaths,
        !.injuries            = @ + r.injuries,
        !.total_casualties    = @ + r.deaths + r.injuries,
        !.military_incidents  = @ + r.military,
        !.diplomatic_meetings = @ + r.diplomatic,
        !.border_violations   = @ + r.border,
        !.economic_impact     = @ \o r.economic,
        !.key_developments    = @ + 1]

\* round(total / max(incidents, 1), 1) in tenths.  The quotient is a tie only
\* at an odd multiple of 1/4 while incidents < 20, which a float holds exactly,
\* and round() then takes the even neighbour.
AvgCasualtiesTenths(total, incidents) ==
    LET m == IF incidents > 1 THEN incidents ELSE 1
        q == (10 * total) \div m
        r == (10 * total) % m
    IN  IF 2 * r < m THEN q
        ELSE IF 2 * r > m THEN q + 1
        ELSE IF q % 2 = 0 THEN q ELSE q + 1

\* The thresholds compared with > in place of >=, shifted by one.
DiplomaticActivityLevel_Shifted(meetings) ==
    IF meetings > 1 THEN "High" ELSE IF meetings > -1 THEN "Moderate" ELSE "Low"

DiplomaticActivityLevel(meetings) ==
    IF meetings >= 3 THEN "High" ELSE IF meetings >= 1 THEN "Moderate" ELSE "Low"

ConflictIntensity(incidents) ==
    IF incidents >= 4 THEN "High" ELSE IF incidents >= 2 THEN "Moderate" ELSE "Low"

\* The keys added after the loop.
FinalStats(st) ==
    [k \in DOMAIN st \cup {"avg_casualties_per_incident", "diplomatic_activity_level",
                           "conflict_intensity"} |->
        CASE k = "avg_casualties_per_incident" ->
                 AvgCasualtiesTenths(st.total_casualties, st.military_incidents)
          [] k = "diplomatic_activity_level" -> DiplomaticActivityLevel(st.diplomatic_meetings)
          [] k = "conflict_intensity" -> ConflictIntensity(st.military_incidents)
          [] OTHER -> st[k]]

-----------------------------------------------------------------------------
(* extract_trending_keywords *)

\* Weights are held in thousandths, so that min(combined_score * 100, 100) is
\* exact for tf-idf scores given in thousandths.
WeightUnit == 1000

\* if len(all_text.strip()) < 100
MinTextLength == 100

\* TfidfVectorizer(max_features=200, ngram_range=(1, 2), min_df=1, max_df=0.8)
min_df == 1
max_df_percent == 80

custom_stop_words ==
    {"said", "says", "according", "report", "reports", "news", "article", "also",
     "would", "could", "should", "one", "two", "three", "new", "first", "last",
     "many", "several", "some", "other", "more", "most", "year", "years", "day",
     "days", "time", "week", "weeks", "month", "months", "today", "yesterday",
     "people", "government", "country", "countries", "state", "states", "region",
     "area", "world", "including", "following", "during", "after", "before",
     "between", "among", "across", "within"}

\* important_keywords, each boost in tenths
important_keywords ==
    [pakistan |-> 30, india |-> 30, kashmir |-> 25, conflict |-> 20, ceasefire |-> 25,
     military |-> 20, border |-> 20, attack |-> 20, peace |-> 25, tension |-> 20,
     diplomatic |-> 20, china |-> 18, afghanistan |-> 18, taliban |-> 18, nuclear |-> 22,
     missile |-> 20, drone |-> 18, terrorism |-> 20, security |-> 18, violence |-> 20,
     negotiations |-> 25, talks |-> 20, minister |-> 15, army |-> 18, forces |-> 18,
     loc |-> 20, balochistan |-> 18, punjab |-> 15, karachi |-> 15, islamabad |-> 15,
     delhi |-> 15, mumbai |-> 15, soldiers |-> 18, civilians |-> 20, casualties |-> 22,
     killed |-> 20, injured |-> 18, blast |-> 20, bomb |-> 20, shelling |-> 20]

\* The two numbers of an entry written in the wrong order.
KeywordEntry_Swapped(text, weight, frequency) ==
    [text |-> text, weight |-> frequency * WeightUnit, frequency |-> weight]

KeywordEntry(text, weight, frequency) ==
    [text |-> text, weight |-> weight * WeightUnit, frequency |-> frequency]

\* The list kept in the order of the words.
fallback_keywords_Alphabetical ==
    <<KeywordEntry("Afghanistan", 38, 2),
      KeywordEntry("Border", 55, 4),
      KeywordEntry("China", 40, 2),
      KeywordEntry("Conflict", 70, 5),
      KeywordEntry("Diplomatic", 50, 3),
      KeywordEntry("India", 95, 9),
      KeywordEntry("Kashmir", 80, 6),
      KeywordEntry("Military", 60, 4),
      KeywordEntry("Nuclear", 35, 2),
      KeywordEntry("Pakistan", 100, 10),
      KeywordEntry("Security", 45, 3),
      KeywordEntry("Taliban", 42, 3)>>

fallback_keywords ==
    <<KeywordEntry("Pakistan", 100, 10),
      KeywordEntry("India", 95, 9),
      KeywordEntry("Kashmir", 80, 6),
      KeywordEntry("Conflict", 70, 5),
      KeywordEntry("Military", 60, 4),
      KeywordEntry("Border", 55, 4),
      KeywordEntry("Diplomatic", 50, 3),
      KeywordEntry("Security", 45, 3),
      KeywordEntry("Taliban", 42, 3),
      KeywordEntry("China", 40, 2),
      KeywordEntry("Afghanistan", 38, 2),
      KeywordEntry("Nuclear", 35, 2)>>

\* all_text += f" {article['title']} {article['text']}"
AppendArticle(text, a) == text \o " " \o a.title \o " " \o a.text

\* The last position at or before k that holds no white space, 0 if none.
RECURSIVE LastNonSpace(_, _)
LastNonSpace(s, k) ==
    IF k = 0 THEN 0 ELSE IF IsSpace(CharAt(s, k)) THEN LastNonSpace(s, k - 1) ELSE k

\* s.strip()
Strip(s) == SubSeq(s, SpaceEnd(s, 1), LastNonSpace(s, Len(s)))

\* hay.count(needle): occurrences that do not overlap, from the left
RECURSIVE CountFrom(_, _, _)
CountFrom(hay, needle, k) ==
    IF k + Len(needle) - 1 > Len(hay) THEN 0
    ELSE IF StartsWithAt(hay, k, needle) THEN 1 + CountFrom(hay, needle, k + Len(needle))
    ELSE CountFrom(hay, needle, k + 1)

Count(hay, needle) == CountFrom(hay, needle, 1)

\* s.isdigit()
IsDigitString(s) == Len(s) > 0 /\ \A k \in 1..Len(s) : IsDigit(CharAt(s, k))

UpperChar(c) ==
    IF \E k \in 1..Len(LowerChars) : LowerChars[k] = c
    THEN UpperChars[CHOOSE k \in 1..Len(LowerChars) : LowerChars[k] = c]
    ELSE c

IsLetter(c) ==
    \E k \in 1..Len(LowerChars) : LowerChars[k] = c \/ UpperChars[k] = c

\* s.title(): a letter is upper case after a character that is no letter and
\* lower case after a letter.
RECURSIVE TitleFrom(_, _)
TitleFrom(s, k) ==
    IF k > Len(s) THEN ""
    ELSE (IF IsLetter(CharAt(s, k - 1)) THEN LowerChar(CharAt(s, k))
          ELSE UpperChar(CharAt(s, k)))
         \o TitleFrom(s, k + 1)

Title(s) == TitleFrom(s, 1)

\* vectorizer.fit_transform(docs) raises ValueError("max_df corresponds to <
\* documents than min_df") when max_df * n_doc < min_df: min_df = 1 is a count
\* and max_df = 0.8 a share of the n_doc documents.
FitTransformRaises(docs) == max_df_percent * Len(docs) < min_df * 100

\* The body of "for i, score in enumerate(tfidf_scores)" for one feature
\* [term, score], score in thousandths: the entry it appends, if any.
Boost(keyword) ==
    IF Lower(keyword) \in DOMAIN important_keywords
    THEN important_keywords[Lower(keyword)] ELSE 10

\* min(score * boost * (1 + frequency * 0.1) * 100, 100) in thousandths
Weight(score, boost, frequency) ==
    IF score * boost * (10 + frequency) < 100 * WeightUnit
    THEN score * boost * (10 + frequency) ELSE 100 * WeightUnit

ScoreEntry(keyword, score, frequency) ==
    [text      |-> Title(keyword),
     weight    |-> Weight(score, Boost(keyword), frequency),
     frequency |-> frequency]

Skipped(keyword) ==
    \/ Lower(keyword) \in custom_stop_words
    \/ Len(keyword) < 3
    \/ IsDigitString(keyword)

RECURSIVE KeywordScores(_, _)
KeywordScores(features, text) ==
    IF Len(features) = 0 THEN <<>>
    ELSE (IF Skipped(Head(features).term) THEN <<>>
          ELSE <<ScoreEntry(Head(features).term, Head(features).score,
                            Count(Lower(text), Lower(Head(features).term)))>>)
         \o KeywordScores(Tail(features), text)

\* keyword_scores.sort(key=weight, reverse=True): a stable sort, entries of
\* equal weight keep their order.
RECURSIVE InsertByWeight(_, _)
InsertByWeight(sorted, e) ==
    IF Len(sorted) = 0 THEN <<e>>
    ELSE IF Head(sorted).weight >= e.weight
         THEN <<Head(sorted)>> \o InsertByWeight(Tail(sorted), e)
         ELSE <<e>> \o sorted

RECURSIVE SortByWeight(_)
SortByWeight(entries) ==
    IF Len(entries) = 0 THEN <<>>
    ELSE InsertByWeight(SortByWeight(SubSeq(entries, 1, Len(entries) - 1)),
                        entries[Len(entries)])

\* entries[:n]
Take(entries, n) == SubSeq(entries, 1, IF n < Len(entries) THEN n ELSE Len(entries))

\* The try block, once the text is long enough and the vectorizer has
\* returned features: the list returned and the return statement taken.
KeywordsOrFallback(trending) ==
    IF Len(trending) = 0 THEN [path |-> "empty", result |-> fallback_keywords]
    ELSE [path |-> "extracted", result |-> trending]

TrendingKeywords(features, text, max) ==
    KeywordsOrFallback(Take(SortByWeight(KeywordScores(features, text)), max))

-----------------------------------------------------------------------------
(* extract_geographic_hotspots *)

\* known_locations, in the order of the dict
known_locations ==
    <<[key |-> "kashmir",     lat |-> "34.0837", lng |-> "74.7973", name |-> "Kashmir",         type |-> "disputed_region"],
      [key |-> "loc",         lat |-> "34.0466", lng |-> "74.3982", name |-> "Line of Control", type |-> "border"],
      [key |-> "karachi",     lat |-> "24.8607", lng |-> "67.0011", name |-> "Karachi",         type |-> "city"],
      [key |-> "islamabad",   lat |-> "33.6844", lng |-> "73.0479", name |-> "Islamabad",       type |-> "capital"],
      [key |-> "lahore",      lat |-> "31.5497", lng |-> "74.3436", name |-> "Lahore",          type |-> "city"],
      [key |-> "delhi",       lat |-> "28.6139", lng |-> "77.2090", name |-> "New Delhi",       type |-> "capital"],
      [key |-> "mumbai",      lat |-> "19.0760", lng |-> "72.8777", name |-> "Mumbai",          type |-> "city"],
      [key |-> "balochistan", lat |-> "28.1100", lng |-> "65.5400", name |-> "Balochistan",     type |-> "province"],
      [key |-> "punjab",      lat |-> "30.9010", lng |-> "73.1200", name |-> "Punjab",          type |-> "province"],
      [key |-> "siachen",     lat |-> "35.4218", lng |-> "77.1025", name |-> "Siachen Glacier", type |-> "disputed_region"]>>

default_hotspots ==
    <<[name |-> "Kashmir", lat |-> "34.0837", lng |-> "74.7973", type |-> "disputed_region",
       intensity |-> "high", incidents |-> 3,
       description |-> "Ongoing tensions in disputed Kashmir region"],
      [name |-> "Line of Control", lat |-> "34.0466", lng |-> "74.3982", type |-> "border",
       intensity |-> "medium", incidents |-> 2,
       description |-> "Border incidents along LOC"],
      [name |-> "Balochistan", lat |-> "28.1100", lng |-> "65.5400", type |-> "province",
       intensity |-> "low", incidents |-> 1,
       description |-> "Regional security concerns"]>>

conflict_keywords ==
    <<"attack", "killed", "bomb", "blast", "shelling", "firing", "violence",
      "incident", "shot", "wounded", "explosion", "strike">>

\* f"{article['title']} {article['text']}".lower()
GeoText(a) == Lower(a.title \o " " \o a.text)

\* Every occurrence of a keyword counted.
RECURSIVE IncidentCount_Occurrences(_, _)
IncidentCount_Occurrences(text, j) ==
    IF j > Len(conflict_keywords) THEN 0
    ELSE Count(text, conflict_keywords[j]) + IncidentCount_Occurrences(text, j + 1)

\* for keyword in conflict_keywords: if keyword in text: incident_count += 1
RECURSIVE IncidentCount(_, _)
IncidentCount(text, j) ==
    IF j > Len(conflict_keywords) THEN 0
    ELSE (IF Contains(text, conflict_keywords[j]) THEN 1 ELSE 0) + IncidentCount(text, j + 1)

\* Medium from two keywords on.
IntensityOf_FromTwo(incident_count) ==
    IF incident_count >= 3 THEN "high"
    ELSE IF incident_count >= 2 THEN "medium"
    ELSE "low"

IntensityOf(incident_count) ==
    IF incident_count >= 3 THEN "high"
    ELSE IF incident_count >= 1 THEN "medium"
    ELSE "low"

\* The locations of known_locations whose key the text holds, in dict order.
RECURSIVE LocationsFound(_, _)
LocationsFound(text, j) ==
    IF j > Len(known_locations) THEN <<>>
    ELSE (IF Contains(text, known_locations[j].key) THEN <<known_locations[j]>> ELSE <<>>)
         \o LocationsFound(text, j + 1)

\* What the loop reads off one article.
AnalyseGeoText(text) ==
    [found          |-> LocationsFound(text, 1),
     incident_count |-> IncidentCount(text, 1)]

AnalyseLocations(a) == AnalyseGeoText(GeoText(a))

\* next((h for h in hotspots if h['name'] == name), None): its index, 0 for None
ExistingIndex(hs, name) ==
    IF \E j \in 1..Len(hs) : hs[j].name = name
    THEN CHOOSE j \in 1..Len(hs) : hs[j].name = name /\ \A k \in 1..(j - 1) : hs[k].name # name
    ELSE 0

\* The intensity the hotspot was created with stays.
UpdatedIntensity_Kept(existing, intensity) == existing

\* The intensity of the latest article taken.
UpdatedIntensity_Latest(existing, intensity) == intensity

\* if intensity == 'high' or (intensity == 'medium' and existing == 'low')
UpdatedIntensity(existing, intensity) ==
    IF intensity = "high" \/ (intensity = "medium" /\ existing = "low")
    THEN intensity ELSE existing

NewHotspot(loc, incident_count) ==
    [name |-> loc.name, lat |-> loc.lat, lng |-> loc.lng, type |-> loc.type,
     intensity |-> IntensityOf(incident_count), incidents |-> incident_count,
     description |-> "Recent activity detected in " \o loc.name]

\* No look for an entry of that name: every mention appends.
PlaceHotspot_AlwaysAppend(hs, loc, incident_count, e) ==
    Append(hs, NewHotspot(loc, incident_count))

\* The branch "if existing_hotspot: ... else: hotspots.append(new_hotspot)",
\* e being the index of the existing entry or 0.
PlaceHotspot(hs, loc, incident_count, e) ==
    IF e # 0
    THEN [hs EXCEPT ![e].intensity = UpdatedIntensity(@, IntensityOf(incident_count)),
                    ![e].incidents = @ + incident_count]
    ELSE Append(hs, NewHotspot(loc, incident_count))

\* The loop over known_locations for one article, from the j-th found location.
RECURSIVE HotspotsAfterArticle(_, _, _)
HotspotsAfterArticle(hs, r, j) ==
    IF j > Len(r.found) THEN hs
    ELSE HotspotsAfterArticle(
             PlaceHotspot(hs, r.found[j], r.incident_count, ExistingIndex(hs, r.found[j].name)),
             r, j + 1)

\* The dicts of the list defaults whose name is not in existing_names, in
\* their order.
RECURSIVE MissingFrom(_, _, _)
MissingFrom(defaults, hs, j) ==
    IF j > Len(defaults) THEN <<>>
    ELSE (IF \E k \in 1..Len(hs) : hs[k].name = defaults[j].name
          THEN <<>> ELSE <<defaults[j]>>)
         \o MissingFrom(defaults, hs, j + 1)

\* The defaults whose name is not in existing_names, in their order.
MissingDefaults(hs, j) == MissingFrom(default_hotspots, hs, j)

\* What the function returns when its local default_hotspots is the list
\* defaults: that list itself, or the found hotspots and then the missing
\* dicts of that list.
ReturnedHotspots(defaults, hs) ==
    IF Len(hs) = 0 THEN defaults ELSE hs \o MissingFrom(defaults, hs, 1)

\* The defaults returned whatever the loop found.
FinalHotspots_DefaultsOnly(hs) == default_hotspots

\* The found list returned as it is.
FinalHotspots_AsFound(hs) == hs

\* if len(hotspots) == 0: hotspots = default_hotspots, else the missing
\* defaults are appended.
FinalHotspots(hs) ==
    IF Len(hs) = 0 THEN default_hotspots ELSE hs \o MissingDefaults(hs, 1)

-----------------------------------------------------------------------------
(* generate_free_summary *)

\* U+2013 of the prefixes and of the " – " replacement, written with a
\* character the inputs do not use otherwise and that, like U+2013, sorts
\* after every other character of the inputs.
EnDash == "~"

\* The characters of the inputs in the order of their code points.
CharOrder ==
    " !#$%&()*+,-./0123456789:;<=>?@ABCDEFGHIJKLMNOPQRSTUVWXYZ[]^_abcdefghijklmnopqrstuvwxyz{|}~"

CodePoint(c) ==
    IF \E k \in 1..Len(CharOrder) : CharAt(CharOrder, k) = c
    THEN CHOOSE k \in 1..Len(CharOrder) : CharAt(CharOrder, k) = c
    ELSE 0

\* s < t of two str values, from position k on
RECURSIVE StrLessFrom(_, _, _)
StrLessFrom(s, t, k) ==
    IF k > Len(t) THEN FALSE
    ELSE IF k > Len(s) THEN TRUE
    ELSE IF CharAt(s, k) = CharAt(t, k) THEN StrLessFrom(s, t, k + 1)
    ELSE CodePoint(CharAt(s, k)) < CodePoint(CharAt(t, k))

StrLess(s, t) == StrLessFrom(s, t, 1)

\* s.find(w, k - 1) + 1: the first position at or after k where w starts, 0 for none
FindFrom(s, k, w) ==
    IF \E j \in k..Len(s) : StartsWithAt(s, j, w)
    THEN CHOOSE j \in k..Len(s) :
             StartsWithAt(s, j, w) /\ \A h \in k..(j - 1) : ~StartsWithAt(s, h, w)
    ELSE 0

\* s.replace(old, new): the occurrences from the left that do not overlap;
\* at is the next occurrence at or after k, 0 for none
RECURSIVE ReplaceFrom(_, _, _, _, _)
ReplaceFrom(s, k, old, new, at) ==
    IF at = 0 THEN SubSeq(s, k, Len(s))
    ELSE SubSeq(s, k, at - 1) \o new
         \o ReplaceFrom(s, at + Len(old), old, new, FindFrom(s, at + Len(old), old))

Replace(s, old, new) == ReplaceFrom(s, 1, old, new, FindFrom(s, 1, old))

\* sep.join(strings)
RECURSIVE Join(_, _)
Join(strings, sep) ==
    IF Len(strings) = 0 THEN ""
    ELSE IF Len(strings) = 1 THEN strings[1]
    ELSE strings[1] \o sep \o Join(Tail(strings), sep)

IsTerminal(c) == c \in {".", "!", "?"}

\* s.endswith(('.', '!', '?'))
EndsWithTerminal(s) == Len(s) > 0 /\ IsTerminal(CharAt(s, Len(s)))

\* The end of a run [.!?]+ that starts at k.
RECURSIVE TerminalsEnd(_, _)
TerminalsEnd(s, k) == IF IsTerminal(CharAt(s, k)) THEN TerminalsEnd(s, k + 1) ELSE k

\* The first position at or after k that holds '.', '!' or '?', 0 for none.
NextTerminal(s, k) ==
    IF \E j \in k..Len(s) : IsTerminal(CharAt(s, j))
    THEN CHOOSE j \in k..Len(s) :
             IsTerminal(CharAt(s, j)) /\ \A h \in k..(j - 1) : ~IsTerminal(CharAt(s, h))
    ELSE 0

\* re.split(r'[.!?]+', s): the fragment that starts at start, which ends at
\* the run of terminals at position at or, for at = 0, at the end of s, and
\* the fragments after it.
RECURSIVE SplitFrom(_, _, _)
SplitFrom(s, start, at) ==
    IF at = 0 THEN <<SubSeq(s, start, Len(s))>>
    ELSE <<SubSeq(s, start, at - 1)>>
         \o SplitFrom(s, TerminalsEnd(s, at), NextTerminal(s, TerminalsEnd(s, at)))

SplitSentences(s) == SplitFrom(s, 1, NextTerminal(s, 1))

\* len(s.strip()) > 20
MinSentenceLength == 20

\* [s.strip() for s in sentences if len(s.strip()) > 20]
RECURSIVE StripAndFilter(_)
StripAndFilter(fragments) ==
    IF Len(fragments) = 0 THEN <<>>
    ELSE (IF Len(Strip(Head(fragments))) > MinSentenceLength
          THEN <<Strip(Head(fragments))>> ELSE <<>>)
         \o StripAndFilter(Tail(fragments))

Sentences(full_text) == StripAndFilter(SplitSentences(full_text))

\* score_sentences_keywords.important_keywords
sentence_keywords ==
    <<"pakistan", "india", "kashmir", "conflict", "ceasefire", "military",
      "government", "border", "attack", "peace", "tension", "diplomatic",
      "china", "afghanistan", "taliban", "nuclear", "missile", "drone">>

\* sum(1 for keyword in important_keywords if keyword in sentence_lower)
KeywordCount(sentence_lower) ==
    Cardinality({j \in 1..Len(sentence_keywords) : Contains(sentence_lower, sentence_keywords[j])})

\* score_sentences_position, in tenths; i counts from 0
PositionScore(i0, total) ==
    IF i0 = 0 \/ i0 = total - 1 THEN 10
    ELSE IF 10 * i0 < 3 * total THEN 8
    ELSE IF 10 * i0 > 7 * total THEN 8
    ELSE 5

\* len(sentence.split())
WordCount(s) ==
    Cardinality({k \in 1..Len(s) : ~IsSpace(CharAt(s, k)) /\ (k = 1 \/ IsSpace(CharAt(s, k - 1)))})

\* score_sentences_length, in tenths
LengthScore(length) ==
    IF 10 <= length /\ length <= 25 THEN 10
    ELSE IF 8 <= length /\ length <= 30 THEN 8
    ELSE IF 5 <= length /\ length <= 35 THEN 6
    ELSE 3

\* combined_score with tfidf, position and length in tenths and the keyword
\* score as a count out of 18, the whole times 1800:
\* 0.4 * tfidf + 0.3 * count / 18 + 0.2 * position + 0.1 * length
CombinedScore(tfidf, keyword_count, position, length) ==
    72 * tfidf + 30 * keyword_count + 36 * position + 18 * length

\* What score_sentences_keywords, score_sentences_position and
\* score_sentences_length give each sentence.
OtherScores(sentences) ==
    [j \in 1..Len(sentences) |->
        [keyword_count |-> KeywordCount(Lower(sentences[j])),
         position      |-> PositionScore(j - 1, Len(sentences)),
         length        |-> LengthScore(WordCount(sentences[j]))]] @@ <<>>

\* combined_scores: the (combined_score, sentence) pairs
ScoredSentences(sentences, tfidf_scores, other) ==
    [j \in 1..Len(sentences) |->
        [score    |-> CombinedScore(tfidf_scores[j], other[j].keyword_count,
                                    other[j].position, other[j].length),
         sentence |-> sentences[j]]]

\* a >= b of two (score, sentence) tuples
PairAtLeast(a, b) ==
    \/ a.score > b.score
    \/ a.score = b.score /\ ~StrLess(a.sentence, b.sentence)

RECURSIVE InsertByPair(_, _)
InsertByPair(sorted, e) ==
    IF Len(sorted) = 0 THEN <<e>>
    ELSE IF PairAtLeast(Head(sorted), e)
         THEN <<Head(sorted)>> \o InsertByPair(Tail(sorted), e)
         ELSE <<e>> \o sorted

RECURSIVE SortByPair(_)
SortByPair(pairs) ==
    IF Len(pairs) = 0 THEN <<>>
    ELSE InsertByPair(SortByPair(SubSeq(pairs, 1, Len(pairs) - 1)), pairs[Len(pairs)])

Sentence(pairs) == [j \in 1..Len(pairs) |-> pairs[j].sentence]

\* The first target_count sentences in the order of the text.
NLargest_InOrder(target_count, pairs) == Sentence(Take(pairs, target_count))

\* heapq.nlargest(target_count, combined_scores), sentences only
NLargest(target_count, pairs) == Sentence(Take(SortByPair(pairs), target_count))

\* extract_key_sentences_multimethod from the scoring on, tfidf_scores being
\* what score_sentences_tfidf returned and other the other three scores
KeySentences(sentences, tfidf_scores, other, target_count) ==
    IF Len(sentences) < 3 THEN sentences
    ELSE NLargest(target_count, ScoredSentences(sentences, tfidf_scores, other))

prefixes_to_remove ==
    <<"Islamabad, Pakistan " \o EnDash, "Islamabad, Pakistan -",
      "New Delhi, India " \o EnDash, "New Delhi, India -">>

\* for prefix in prefixes_to_remove: if sentence.startswith(prefix): ...
RECURSIVE RemovePrefixes(_, _)
RemovePrefixes(sentence, j) ==
    IF j > Len(prefixes_to_remove) THEN sentence
    ELSE RemovePrefixes(
             IF StartsWithAt(sentence, 1, prefixes_to_remove[j])
             THEN Strip(SubSeq(sentence, Len(prefixes_to_remove[j]) + 1, Len(sentence)))
             ELSE sentence,
             j + 1)

\* if not sentence.endswith(('.', '!', '?')): sentence += "."
EnsureEnding(sentence) ==
    IF EndsWithTerminal(sentence) THEN sentence ELSE sentence \o "."

\* sentence[0].upper() + sentence[1:]
Capitalize(sentence) ==
    IF Len(sentence) = 0 THEN sentence
    ELSE UpperChar(CharAt(sentence, 1)) \o SubSeq(sentence, 2, Len(sentence))

\* The part of clean_sentence_for_summary after the length test.
CleanStripped(sentence) ==
    Capitalize(EnsureEnding(
        Replace(Replace(RemovePrefixes(sentence, 1), " " \o EnDash \o " ", " - "), "  ", " ")))

clean_sentence_for_summary(sentence) ==
    IF Len(Strip(sentence)) < 20 THEN "" ELSE CleanStripped(Strip(sentence))

\* if clean_sent and len(clean_sent) > 30
MinCleanLength == 30

\* cleaned_sentences, from key_sentences[:4]
RECURSIVE CleanedSentences(_)
CleanedSentences(key_sentences) ==
    IF Len(key_sentences) = 0 THEN <<>>
    ELSE (IF Len(clean_sentence_for_summary(Head(key_sentences))) > MinCleanLength
          THEN <<clean_sentence_for_summary(Head(key_sentences))>> ELSE <<>>)
         \o CleanedSentences(Tail(key_sentences))

NoArticlesMessage == "No articles available for analysis."

NoContentMessage == "No readable content found in articles."

ClosingClause ==
    " Recent developments are still emerging, with ongoing diplomatic and security concerns in the region."

DiplomaticOpener ==
    "The India-Pakistan conflict shows signs of potential diplomatic breakthrough as peace initiatives gain momentum."

MilitaryOpener ==
    "Military tensions have escalated in the India-Pakistan conflict, with both nations engaging in strategic operations."

RegionalOpener ==
    "Regional dynamics involving China and Afghanistan are reshaping India-Pakistan relations in South Asia."

TalibanOpener ==
    "The Taliban's growing influence is creating new diplomatic complexities in India-Pakistan relations."

ChinaOpener ==
    "China's involvement continues to influence the strategic balance between India and Pakistan."

GenericOpener ==
    "The India-Pakistan conflict continues to evolve with significant regional and international implications."

\* The branches with the taliban test ahead of the china and afghanistan or
\* taliban test.
ContextIntroOf_TalibanFirst(all_title_text) ==
    IF Contains(all_title_text, "ceasefire") \/ Contains(all_title_text, "peace")
    THEN DiplomaticOpener
    ELSE IF \/ Contains(all_title_text, "attack")
            \/ Contains(all_title_text, "missile")
            \/ Contains(all_title_text, "drone")
    THEN MilitaryOpener
    ELSE IF Contains(all_title_text, "taliban") THEN TalibanOpener
    ELSE IF /\ Contains(all_title_text, "china")
            /\ Contains(all_title_text, "afghanistan")
    THEN RegionalOpener
    ELSE IF Contains(all_title_text, "china") THEN ChinaOpener
    ELSE GenericOpener

\* The branches of generate_context_intro on all_title_text.
ContextIntroOf(all_title_text) ==
    IF Contains(all_title_text, "ceasefire") \/ Contains(all_title_text, "peace")
    THEN DiplomaticOpener
    ELSE IF \/ Contains(all_title_text, "attack")
            \/ Contains(all_title_text, "missile")
            \/ Contains(all_title_text, "drone")
    THEN MilitaryOpener
    ELSE IF /\ Contains(all_title_text, "china")
            /\ (Contains(all_title_text, "afghanistan") \/ Contains(all_title_text, "taliban"))
    THEN RegionalOpener
    ELSE IF Contains(all_title_text, "taliban") THEN TalibanOpener
    ELSE IF Contains(all_title_text, "china") THEN ChinaOpener
    ELSE GenericOpener

generate_context_intro(title_list) == ContextIntroOf(Lower(Join(title_list, " ")))

\* summary_parts joined, for two cleaned sentences or more
Narrative(context_intro, cleaned) ==
    Join(<<context_intro,
           "Recent developments indicate that " \o Lower(cleaned[1]),
           "Additionally, " \o Lower(cleaned[2])>>
         \o (IF Len(cleaned) >= 3 THEN <<"Meanwhile, " \o Lower(cleaned[3])>> ELSE <<>>)
         \o (IF Len(cleaned) >= 4
             THEN <<"The ongoing situation has resulted in" \o " " \o Lower(cleaned[4])>>
             ELSE <<>>),
         " ")

\* Steps 2 and 3 of generate_free_summary: the string returned and the return
\* statement taken.
ComposeSummary(context_intro, key_sentences, cleaned) ==
    IF Len(key_sentences) = 0
    THEN [path |-> "no_key_sentences", result |-> context_intro \o ClosingClause]
    ELSE IF Len(cleaned) >= 2
    THEN [path |-> "narrative", result |-> Narrative(context_intro, cleaned)]
    ELSE [path |-> "limited", result |-> context_intro \o " " \o Join(cleaned, " ")]

\* article['text'].replace('\n', ' ').strip()
PreparedText(a) == Strip(Replace(a.text, "\n", " "))

-----------------------------------------------------------------------------
(* The inputs: article records {title, text} *)

NoArticle == [title |-> "", text |-> ""]

StatsTitles == {"", "Border talks", "Drone attack"}

StatsTexts ==
    {"",
     "6 killed",
     "Six killed",
     "at least 6 killed",
     "at least six killed",
     "killed 6",
     "killed six",
     "death toll of 12",
     "death toll of twelve",
     "16 people dead",
     "sixteen children killed",
     "7 injured",
     "seven injured",
     "seven wounded",
     "at least 7 injured",
     "at least seven injured",
     "20 casualties",
     "6 killed and 7 injured in blast",
     "missile attack near the border",
     "ministers hold talks",
     "loss of 2.5 billion",
     "trade worth 10million and 2.50 billion"}

StatsArticles == [title : StatsTitles, text : StatsTexts]

\* AnalyseArticle over the input articles, computed once and kept as a table.
ArticleAnalysis == [a \in StatsArticles |-> AnalyseArticle(a)] @@ <<>>

KwTitles == {"", "Pakistan India talks"}

KwTexts ==
    {"",
     "  ",
     "Kashmir border tension rises",
     "Pakistan and India agree to hold talks on Kashmir after border clashes",
     "Pakistan and India traded fire across the Line of Control in Kashmir on Monday as the ceasefire collapsed again"}

KwArticles == [title : KwTitles, text : KwTexts]

\* Article dicts that lack the title or the text key.
KwMalformed == {[text |-> "Kashmir border tension rises"], [title |-> "Pakistan India talks"]}

HasTitleAndText(a) == {"title", "text"} \subseteq DOMAIN a

\* Values of the max_keywords parameter; 20 is its default.
KwMaxKeywords == {5, 12, 20}

\* What the vectorizer hands back when it does not raise: features as
\* [term, score], the tf-idf score in thousandths.
KwFeatureLists ==
    {<<>>,
     <<[term |-> "said", score |-> 300], [term |-> "12", score |-> 100]>>,
     <<[term |-> "india", score |-> 300], [term |-> "kashmir", score |-> 400],
       [term |-> "said", score |-> 300], [term |-> "border clashes", score |-> 20],
       [term |-> "pakistan", score |-> 600], [term |-> "on", score |-> 200]>>}

GeoTitles == {"", "Kashmir"}

GeoTexts ==
    {"",
     "Peace talks resume",
     "attack killed",
     "Blast in Balochistan",
     "local firing and shelling, one shot",
     "Delhi and Mumbai on alert",
     "LoC attack",
     "Attack after attack in Lahore",
     "attack killed bomb blast shelling firing violence incident shot wounded explosion strike"}

GeoArticles == [title : GeoTitles, text : GeoTexts]

\* AnalyseLocations over the input articles, computed once and kept as a table.
GeoAnalysis == [a \in GeoArticles |-> AnalyseLocations(a)] @@ <<>>

SumTitles == {"", "Peace talks after drone attack"}

SumTexts ==
    {"",
     " \n ",
     "Twenty chars exactly. Ok!",
     "India and Pakistan held talks",
     "Islamabad, Pakistan - Officials from both countries met on Tuesday to discuss the ceasefire",
     "Troops exchanged fire along the border in Kashmir. Is a wider conflict between the neighbours likely?\nThe government of India has not yet commented!"}

SumArticles == [title : SumTitles, text : SumTexts]

\* The longest article list generate_free_summary is given.
MaxSummaryArticles == 2

\* The values of the target_sentences parameter.
SumTargets == {2, 6}

\* The values, in tenths, score_sentences_tfidf gives a sentence: 1.0 is also
\* what its except branch gives.
TfidfTenths == {10, 17}

\* The titles generate_context_intro is given.
IntroTitles ==
    {"", "Peace talks", "Drone attack", "Missile test", "Ceasefire holds",
     "China and Taliban meet", "Taliban advance", "China trade", "Afghanistan and China",
     "PEACE after ATTACK", "Border news"}

\* The articles get_news hands to the four extractors.
SharedArticles ==
    {[title |-> "Drone attack",
      text  |-> "  6 killed in Kashmir.\nTalks held in Lahore after the blast  "],
     [title |-> "Kashmir", text |-> " \n "],
     [title |-> "",
      text  |-> "Troops fired along the border. Is a wider war likely now?\nIndia has not commented yet!"]}

\* The lists of at most n elements of S.
ListsUpTo(S, n) == UNION {[1..k -> S] : k \in 0..n}

SharedLists == ListsUpTo(SharedArticles, MaxSummaryArticles)

\* AnalyseArticle and AnalyseLocations over these articles, kept as a table.
SharedAnalysis ==
    [a \in SharedArticles |-> [stats |-> AnalyseArticle(a), geo |-> AnalyseLocations(a)]] @@ <<>>

AnalysisOf(a) ==
    IF a \in DOMAIN SharedAnalysis THEN SharedAnalysis[a]
    ELSE [stats |-> AnalyseArticle(a), geo |-> AnalyseLocations(a)]

\* AnalyseArticle of an article, from the tables where they have it.
StatsAnalysisOf(a) ==
    IF a \in DOMAIN ArticleAnalysis THEN ArticleAnalysis[a] ELSE AnalysisOf(a).stats

\* AnalyseLocations of an article, from the tables where they have it.
GeoAnalysisOf(a) ==
    IF a \in DOMAIN GeoAnalysis THEN GeoAnalysis[a] ELSE AnalysisOf(a).geo

\* The articles of the lists extract_conflict_statistics is given one after
\* the other: 2.5 and 2.50 are the same figure.
ConcatArticles ==
    {[title |-> "Drone attack", text |-> "6 killed and 7 injured in blast"],
     [title |-> "Border talks", text |-> "loss of 2.5 billion"],
     [title |-> "", text |-> "trade worth 10million and 2.50 billion"],
     [title |-> "", text |-> "seven wounded"]}

ConcatLists == ListsUpTo(ConcatArticles, MaxSummaryArticles)

\* The articles of the lists extract_geographic_hotspots is given in two
\* orders.
PermArticles ==
    {[title |-> "Kashmir", text |-> ""],
     [title |-> "Kashmir", text |-> "attack killed"],
     [title |-> "Kashmir",
      text  |-> "attack killed bomb blast shelling firing violence incident shot wounded explosion strike"],
     [title |-> "", text |-> "Attack after attack in Lahore"],
     [title |-> "", text |-> "Blast in Balochistan"],
     [title |-> "", text |-> "Peace talks resume"]}

PermLists == ListsUpTo(PermArticles, MaxArticles)

\* The list in the order the permutation p of its positions gives.
Permuted(list, p) == [j \in 1..Len(list) |-> list[p[j]]]

\* The scores score_sentences_tfidf can give, in tenths: sentence j gets
\* entry j of the pattern, repeated as often as needed.
TfidfPatterns == {<<10>>, <<17, 10>>, <<10, 10, 17>>}

PatternScores(pattern, n) == [j \in 1..n |-> pattern[((j - 1) % Len(pattern)) + 1]]

Extractors == {"statistics", "keywords", "hotspots", "summary"}

\* No default_hotspots and no fallback_keywords list has been built yet.
NoObjects == [default_hotspots |-> <<>>, fallback_keywords |-> <<>>]

\* No call made yet.
NoRun == [articles |-> <<>>, result |-> <<>>]

NoCall == [extractor |-> "none", list |-> <<>>, value |-> <<>>, modified |-> FALSE]

-----------------------------------------------------------------------------
(* The state machine *)

Init ==
    /\ pc = "idle"
    /\ n_articles = 0
    /\ i = 0
    /\ article = NoArticle
    /\ stats = InitialStats
    /\ article_deaths = 0
    /\ article_injuries = 0
    /\ max_keywords = 20
    /\ all_text = ""
    /\ kw_path = "none"
    /\ kw_result = <<>>
    /\ seen = <<>>
    /\ hotspots = <<>>
    /\ geo_path = "none"
    /\ titles = <<>>
    /\ text_list = <<>>
    /\ target_sentences = 6
    /\ sum_path = "none"
    /\ summary = ""
    /\ candidates = <<>>
    /\ tfidf_tenths = <<>>
    /\ selected = <<>>
    /\ intro = ""
    /\ articles = <<>>
    /\ given = <<>>
    /\ progress = [e \in Extractors |-> 0]
    /\ finished = {}
    /\ live = NoObjects
    /\ last_call = NoCall
    /\ first_result = <<>>
    /\ tracked = <<>>
    /\ scoring = <<10>>
    /\ run_a = NoRun
    /\ run_b = NoRun
    /\ run_ab = NoRun
    /\ wire = <<>>
    /\ buffer = <<>>
    /\ raised = "none"

Returned == {"idle", "stats_done", "kw_done", "kw_raised", "geo_done", "sum_done"}

\* extract_conflict_statistics(articles) is called: the stats dict is built.
StatsCall ==
    /\ pc \in Returned
    /\ \E n \in 0..MaxArticles : n_articles' = n
    /\ pc' = "stats_loop"
    /\ i' = 0
    /\ article' = NoArticle
    /\ stats' = InitialStats
    /\ article_deaths' = 0
    /\ article_injuries' = 0
    /\ max_keywords' = 20
    /\ all_text' = ""
    /\ kw_path' = "none"
    /\ kw_result' = <<>>
    /\ seen' = <<>>
    /\ hotspots' = <<>>
    /\ geo_path' = "none"
    /\ titles' = <<>>
    /\ text_list' = <<>>
    /\ target_sentences' = 6
    /\ sum_path' = "none"
    /\ summary' = ""
    /\ candidates' = <<>>
    /\ tfidf_tenths' = <<>>
    /\ selected' = <<>>
    /\ intro' = ""
    /\ UNCHANGED callerVars

\* One iteration of "for i, article in enumerate(articles)".
StatsLoop ==
    /\ pc = "stats_loop"
    /\ i < n_articles
    /\ \E a \in StatsArticles :
          /\ article' = a
          /\ article_deaths' = ArticleAnalysis[a].deaths
          /\ article_injuries' = ArticleAnalysis[a].injuries
          /\ stats' = StatsAfterArticle(stats, ArticleAnalysis[a])
    /\ i' = i + 1
    /\ UNCHANGED <<pc, n_articles, kwVars, geoVars, sumVars, callerVars>>

\* The loop is over: the derived keys are added and the dict is returned.
StatsReturn ==
    /\ pc = "stats_loop"
    /\ i = n_articles
    /\ stats' = FinalStats(stats)
    /\ pc' = "stats_done"
    /\ UNCHANGED <<n_articles, i, article, article_deaths, article_injuries, kwVars, geoVars, sumVars, callerVars>>

NextStatistics == StatsCall \/ StatsLoop \/ StatsReturn

\* extract_trending_keywords(articles, max_keywords) is called.
KwCall ==
    /\ pc \in Returned
    /\ \E n \in 0..MaxArticles : n_articles' = n
    /\ \E m \in KwMaxKeywords : max_keywords' = m
    /\ pc' = "kw_loop"
    /\ i' = 0
    /\ article' = NoArticle
    /\ stats' = InitialStats
    /\ article_deaths' = 0
    /\ article_injuries' = 0
    /\ all_text' = ""
    /\ kw_path' = "none"
    /\ kw_result' = <<>>
    /\ seen' = <<>>
    /\ hotspots' = <<>>
    /\ geo_path' = "none"
    /\ titles' = <<>>
    /\ text_list' = <<>>
    /\ target_sentences' = 6
    /\ sum_path' = "none"
    /\ summary' = ""
    /\ candidates' = <<>>
    /\ tfidf_tenths' = <<>>
    /\ selected' = <<>>
    /\ intro' = ""
    /\ UNCHANGED callerVars

\* One iteration of the loop that combines the article text.  The loop is
\* outside the try block: article['title'] or article['text'] of a dict that
\* lacks the key raises KeyError to the caller.
KwLoop ==
    /\ pc = "kw_loop"
    /\ i < n_articles
    /\ \E a \in KwArticles \cup KwMalformed :
          /\ article' = a
          /\ IF HasTitleAndText(a)
             THEN /\ all_text' = AppendArticle(all_text, a)
                  /\ i' = i + 1
                  /\ pc' = pc
             ELSE /\ pc' = "kw_raised"
                  /\ UNCHANGED <<all_text, i>>
    /\ UNCHANGED <<n_articles, max_keywords, kw_path, kw_result, statsVars, geoVars, sumVars, callerVars>>

\* The try block: the length test, the vectorizer, the scoring loop, and the
\* except clause that answers every exception with the fallback list.
KwReturn ==
    /\ pc = "kw_loop"
    /\ i = n_articles
    /\ IF Len(Strip(all_text)) < MinTextLength
       THEN kw_path' = "insufficient" /\ kw_result' = fallback_keywords
       ELSE IF FitTransformRaises(<<all_text>>)
       THEN kw_path' = "exception" /\ kw_result' = fallback_keywords
       ELSE \E features \in KwFeatureLists :
               /\ kw_path' = TrendingKeywords(features, all_text, max_keywords).path
               /\ kw_result' = TrendingKeywords(features, all_text, max_keywords).result
    /\ pc' = "kw_done"
    /\ UNCHANGED <<n_articles, i, article, max_keywords, all_text, statsVars, geoVars, sumVars, callerVars>>

NextKeywords == KwCall \/ KwLoop \/ KwReturn

\* extract_geographic_hotspots(articles) is called.
GeoCall ==
    /\ pc \in Returned
    /\ \E n \in 0..MaxArticles : n_articles' = n
    /\ pc' = "geo_loop"
    /\ i' = 0
    /\ article' = NoArticle
    /\ stats' = InitialStats
    /\ article_deaths' = 0
    /\ article_injuries' = 0
    /\ max_keywords' = 20
    /\ all_text' = ""
    /\ kw_path' = "none"
    /\ kw_result' = <<>>
    /\ seen' = <<>>
    /\ hotspots' = <<>>
    /\ geo_path' = "none"
    /\ titles' = <<>>
    /\ text_list' = <<>>
    /\ target_sentences' = 6
    /\ sum_path' = "none"
    /\ summary' = ""
    /\ candidates' = <<>>
    /\ tfidf_tenths' = <<>>
    /\ selected' = <<>>
    /\ intro' = ""
    /\ UNCHANGED callerVars

\* One iteration of the loop over the articles.
GeoLoop ==
    /\ pc = "geo_loop"
    /\ i < n_articles
    /\ \E a \in GeoArticles :
          /\ article' = a
          /\ seen' = Append(seen, a)
          /\ hotspots' = HotspotsAfterArticle(hotspots, GeoAnalysis[a], 1)
    /\ i' = i + 1
    /\ UNCHANGED <<pc, n_articles, geo_path, statsVars, kwVars, sumVars, callerVars>>

\* After the loop: the defaults replace an empty list or fill in a found one.
GeoReturn ==
    /\ pc = "geo_loop"
    /\ i = n_articles
    /\ geo_path' = IF Len(hotspots) = 0 THEN "default" ELSE "enhanced"
    /\ hotspots' = FinalHotspots(hotspots)
    /\ pc' = "geo_done"
    /\ UNCHANGED <<n_articles, i, article, seen, statsVars, kwVars, sumVars, callerVars>>

NextHotspots == GeoCall \/ GeoLoop \/ GeoReturn

SpecHotspots == Init /\ [][NextHotspots]_vars

\* generate_free_summary(articles, target_sentences) is called.
SumCall ==
    /\ pc \in Returned
    /\ \E n \in 0..MaxSummaryArticles : n_articles' = n
    /\ \E t \in SumTargets : target_sentences' = t
    /\ pc' = "sum_loop"
    /\ i' = 0
    /\ article' = NoArticle
    /\ stats' = InitialStats
    /\ article_deaths' = 0
    /\ article_injuries' = 0
    /\ max_keywords' = 20
    /\ all_text' = ""
    /\ kw_path' = "none"
    /\ kw_result' = <<>>
    /\ seen' = <<>>
    /\ hotspots' = <<>>
    /\ geo_path' = "none"
    /\ titles' = <<>>
    /\ text_list' = <<>>
    /\ sum_path' = "none"
    /\ summary' = ""
    /\ candidates' = <<>>
    /\ tfidf_tenths' = <<>>
    /\ selected' = <<>>
    /\ intro' = ""
    /\ UNCHANGED callerVars

\* One iteration of the loop over the articles.
SumLoop ==
    /\ pc = "sum_loop"
    /\ i < n_articles
    /\ \E a \in SumArticles :
          /\ article' = a
          /\ titles' = Append(titles, a.title)
          /\ text_list' = IF PreparedText(a) # "" THEN Append(text_list, PreparedText(a))
                          ELSE text_list
    /\ i' = i + 1
    /\ UNCHANGED <<pc, n_articles, target_sentences, sum_path, summary, candidates,
                   tfidf_tenths, selected, intro, statsVars, kwVars, geoVars, callerVars>>

\* generate_free_summary from step 3 on, for the key sentences found.
SummaryFromKey(context_intro, key_sentences) ==
    ComposeSummary(context_intro, key_sentences, CleanedSentences(Take(key_sentences, 4)))

\* The scores score_sentences_tfidf can return for the sentences, in tenths:
\* those where at most two sentences stand out with the higher score.  It is
\* not called for fewer than 3 sentences.
ScoreChoices(sentences) ==
    IF Len(sentences) < 3 THEN {<<>>}
    ELSE {scores \in [1..Len(sentences) -> TfidfTenths] :
             Cardinality({j \in 1..Len(sentences) : scores[j] # 10}) <= 2}

\* The tf-idf scores, the key sentences found with them and the summary made
\* of these.
SummaryOutcome(context_intro, tfidf_scores, key_sentences) ==
    [tfidf_scores  |-> tfidf_scores,
     key_sentences |-> key_sentences,
     summary       |-> SummaryFromKey(context_intro, key_sentences)]

\* What generate_free_summary can return from step 1 on, one outcome for each
\* value of the tf-idf scores.
FreeSummaries(context_intro, sentences, other, target_count) ==
    {SummaryOutcome(context_intro, tfidf_scores,
                    KeySentences(sentences, tfidf_scores, other, target_count)) :
        tfidf_scores \in ScoreChoices(sentences)}

FreeSummary(title_list, sentences, target_count) ==
    FreeSummaries(generate_context_intro(title_list), sentences, OtherScores(sentences),
                  target_count)

\* The returns of generate_free_summary.
SumReturn ==
    /\ pc = "sum_loop"
    /\ i = n_articles
    /\ IF n_articles = 0
       THEN /\ sum_path' = "no_articles"
            /\ summary' = NoArticlesMessage
            /\ UNCHANGED <<candidates, tfidf_tenths, selected, intro>>
       ELSE IF Len(text_list) = 0
       THEN /\ sum_path' = "no_content"
            /\ summary' = NoContentMessage
            /\ UNCHANGED <<candidates, tfidf_tenths, selected, intro>>
       ELSE /\ candidates' = Sentences(Join(text_list, " "))
            /\ intro' = generate_context_intro(titles)
            /\ \E r \in FreeSummaries(intro', candidates', OtherScores(candidates'),
                                      target_sentences) :
                  /\ tfidf_tenths' = r.tfidf_scores
                  /\ selected' = r.key_sentences
                  /\ sum_path' = r.summary.path
                  /\ summary' = r.summary.result
    /\ pc' = "sum_done"
    /\ UNCHANGED <<n_articles, i, article, titles, text_list, target_sentences,
                   statsVars, kwVars, geoVars, callerVars>>

NextSummary == SumCall \/ SumLoop \/ SumReturn

SpecSummary == Init /\ [][NextSummary]_vars

\* The four extractors together, any of them called once the last has returned.
Next == NextStatistics \/ NextKeywords \/ NextHotspots \/ NextSummary

Spec == Init /\ [][Next]_vars

SpecKeywords == Init /\ [][NextKeywords]_vars

SpecStatistics == Init /\ [][NextStatistics]_vars

-----------------------------------------------------------------------------
(* generate_context_intro called on its own *)

\* generate_context_intro(titles) is called.
IntroCall ==
    /\ pc = "idle"
    /\ pc' = "intro_call"
    /\ \E title_list \in ListsUpTo(IntroTitles, MaxSummaryArticles) : titles' = title_list
    /\ intro' = ""
    /\ UNCHANGED <<n_articles, i, article, text_list, target_sentences, sum_path, summary,
                   candidates, tfidf_tenths, selected, statsVars, kwVars, geoVars, callerVars>>

\* It returns the opener of the first branch whose test holds.
IntroReturn ==
    /\ pc = "intro_call"
    /\ intro' = generate_context_intro(titles)
    /\ pc' = "intro_done"
    /\ UNCHANGED <<n_articles, i, article, titles, text_list, target_sentences, sum_path,
                   summary, candidates, tfidf_tenths, selected, statsVars, kwVars, geoVars,
                   callerVars>>

NextContextIntro == IntroCall \/ IntroReturn

SpecContextIntro == Init /\ [][NextContextIntro]_vars

-----------------------------------------------------------------------------
(* Whole calls of the extractors *)

\* The loop of extract_conflict_statistics over articles[j..].
RECURSIVE StatsOver(_, _, _)
StatsOver(st, list, j) ==
    IF j > Len(list) THEN st
    ELSE StatsOver(StatsAfterArticle(st, StatsAnalysisOf(list[j])), list, j + 1)

extract_conflict_statistics(list) == FinalStats(StatsOver(InitialStats, list, 1))

\* The loop of extract_trending_keywords over articles[j..].
RECURSIVE TextOver(_, _, _)
TextOver(text, list, j) ==
    IF j > Len(list) THEN text ELSE TextOver(AppendArticle(text, list[j]), list, j + 1)

\* What extract_trending_keywords returns for the combined text when its local
\* fallback_keywords is the list fallback and the vectorizer finds features.
KeywordsFor(text, max, fallback, features) ==
    IF Len(Strip(text)) < MinTextLength THEN fallback
    ELSE IF FitTransformRaises(<<text>>) THEN fallback
    ELSE IF TrendingKeywords(features, text, max).path = "extracted"
    THEN TrendingKeywords(features, text, max).result
    ELSE fallback

\* The loop of extract_geographic_hotspots over articles[j..].
RECURSIVE HotspotsOver(_, _, _)
HotspotsOver(hs, list, j) ==
    IF j > Len(list) THEN hs
    ELSE HotspotsOver(HotspotsAfterArticle(hs, GeoAnalysisOf(list[j]), 1), list, j + 1)

extract_geographic_hotspots(list) == FinalHotspots(HotspotsOver(<<>>, list, 1))

\* The loop of generate_free_summary over articles[j..]: the titles.
TitlesOf(list) == [j \in 1..Len(list) |-> list[j].title]

\* The loop of generate_free_summary over articles[j..]: the all_text list.
RECURSIVE TextsOver(_, _)
TextsOver(list, j) ==
    IF j > Len(list) THEN <<>>
    ELSE (IF PreparedText(list[j]) # "" THEN <<PreparedText(list[j])>> ELSE <<>>)
         \o TextsOver(list, j + 1)

\* generate_free_summary from step 1 on when score_sentences_tfidf scores by
\* the pattern.
ScoredSummary(title_list, sentences, target_count, pattern) ==
    SummaryFromKey(generate_context_intro(title_list),
                   KeySentences(sentences,
                                IF Len(sentences) < 3 THEN <<>>
                                ELSE PatternScores(pattern, Len(sentences)),
                                OtherScores(sentences), target_count)).result

SummaryOfLists(n, title_list, texts, target_count, pattern) ==
    IF n = 0 THEN NoArticlesMessage
    ELSE IF Len(texts) = 0 THEN NoContentMessage
    ELSE ScoredSummary(title_list, Sentences(Join(texts, " ")), target_count, pattern)

generate_free_summary(list, target_count, pattern) ==
    SummaryOfLists(Len(list), TitlesOf(list), TextsOver(list, 1), target_count, pattern)

\* What each extractor returns for each list when it runs alone, kept as a table.
Alone ==
    [list \in SharedLists |->
        [statistics |-> extract_conflict_statistics(list),
         hotspots   |-> extract_geographic_hotspots(list),
         found      |-> HotspotsOver(<<>>, list, 1),
         text       |-> TextOver("", list, 1),
         summary    |-> [pattern \in TfidfPatterns |-> generate_free_summary(list, 6, pattern)]]]
    @@ <<>>

-----------------------------------------------------------------------------
(* extract_conflict_statistics on a list, on another and on the two in a row *)

\* The three calls are made.
ConcatCall ==
    /\ pc = "idle"
    /\ pc' = "concat_call"
    /\ \E list_a, list_b \in ConcatLists :
          /\ run_a' = [articles |-> list_a, result |-> <<>>]
          /\ run_b' = [articles |-> list_b, result |-> <<>>]
          /\ run_ab' = [articles |-> list_a \o list_b, result |-> <<>>]
    /\ UNCHANGED <<n_articles, i, article, statsVars, kwVars, geoVars, sumVars,
                   sharedVars, repeatVars, scoring, httpVars>>

\* The three calls return.
ConcatReturn ==
    /\ pc = "concat_call"
    /\ pc' = "concat_done"
    /\ run_a' = [run_a EXCEPT !.result = extract_conflict_statistics(run_a.articles)]
    /\ run_b' = [run_b EXCEPT !.result = extract_conflict_statistics(run_b.articles)]
    /\ run_ab' = [run_ab EXCEPT !.result = extract_conflict_statistics(run_ab.articles)]
    /\ UNCHANGED <<n_articles, i, article, statsVars, kwVars, geoVars, sumVars,
                   sharedVars, repeatVars, scoring, httpVars>>

NextConcat == ConcatCall \/ ConcatReturn

SpecConcat == Init /\ [][NextConcat]_vars

-----------------------------------------------------------------------------
(* extract_geographic_hotspots on a list and on the same articles in another order *)

\* The two calls are made.
PermCall ==
    /\ pc = "idle"
    /\ pc' = "perm_call"
    /\ \E list \in PermLists :
          \E p \in Permutations(1..Len(list)) :
             /\ run_a' = [articles |-> list, result |-> <<>>]
             /\ run_b' = [articles |-> Permuted(list, p), result |-> <<>>]
    /\ UNCHANGED <<n_articles, i, article, statsVars, kwVars, geoVars, sumVars,
                   sharedVars, repeatVars, scoring, run_ab, httpVars>>

\* The two calls return.
PermReturn ==
    /\ pc = "perm_call"
    /\ pc' = "perm_done"
    /\ run_a' = [run_a EXCEPT !.result = extract_geographic_hotspots(run_a.articles)]
    /\ run_b' = [run_b EXCEPT !.result = extract_geographic_hotspots(run_b.articles)]
    /\ UNCHANGED <<n_articles, i, article, statsVars, kwVars, geoVars, sumVars,
                   sharedVars, repeatVars, scoring, run_ab, httpVars>>

NextPermuted == PermCall \/ PermReturn

SpecPermuted == Init /\ [][NextPermuted]_vars

-----------------------------------------------------------------------------
(* handler.do_GET of api/news.py: what goes onto the connection, step by step *)

\* What send_response, send_header, end_headers and wfile.write put on the
\* connection.
StatusLine(code) == [kind |-> "status", value |-> code]

Header(keyword) == [kind |-> "header", value |-> keyword]

EndOfHeaders == [kind |-> "end_headers", value |-> ""]

Body(data) == [kind |-> "body", value |-> data]

\* send_response of BaseHTTPRequestHandler: the status line, then the Server
\* and Date headers, into the headers buffer.
send_response(code) == <<StatusLine(code), Header("Server"), Header("Date")>>

\* The headers do_GET sends after the 200 and after the 500.
HeadersOfOk ==
    <<"Content-type", "Access-Control-Allow-Origin",
      "Access-Control-Allow-Methods", "Access-Control-Allow-Headers">>

HeadersOfError == <<"Content-type", "Access-Control-Allow-Origin">>

\* str(e) of the exceptions raised in the try block.
HandlerErrors == {"title", "timed out"}

\* The statements of the try block after end_headers, each of which may raise.
AfterHeaders ==
    {"get_fetch", "get_summary", "get_videos", "get_statistics", "get_keywords",
     "get_hotspots", "get_respond"}

\* What generate_summary returns for a list with articles: the summary of the
\* language service, the free summary, or its error text.
SummaryError == "Error generating summary. Please try again later."

SummaryReturns(list) ==
    {"OpenAI summary", SummaryError}
        \cup {Alone[list].summary[pattern] : pattern \in TfidfPatterns}

\* response_data of the two branches.
NoArticlesData ==
    [error |-> "No recent news articles found", articles |-> <<>>, images |-> <<>>,
     statistics |-> <<>>, trending_keywords |-> <<>>, geographic_hotspots |-> <<>>]

ResponseData ==
    [summary |-> summary, articles |-> Take(articles, 5), images |-> <<>>,
     statistics |-> stats, trending_keywords |-> kw_result,
     geographic_hotspots |-> hotspots]

\* The variables do_GET leaves alone.
handlerRest ==
    <<n_articles, article, article_deaths, article_injuries, max_keywords, all_text,
      kw_path, seen, geo_path, titles, text_list, target_sentences, sum_path,
      candidates, tfidf_tenths, selected, intro, given, progress, finished,
      repeatVars, scoring, relVars>>

\* A GET request arrives.
do_GET ==
    /\ pc = "idle"
    /\ pc' = "get_send_response"
    /\ UNCHANGED <<i, articles, summary, stats, kw_result, hotspots, httpVars, handlerRest>>

\* self.send_response(200)
SendResponseOk ==
    /\ pc = "get_send_response"
    /\ buffer' = buffer \o send_response("200")
    /\ i' = 0
    /\ pc' = "get_send_header"
    /\ UNCHANGED <<articles, summary, stats, kw_result, hotspots, wire, raised, handlerRest>>

\* self.send_header(...), one of the four
SendHeaderOk ==
    /\ pc = "get_send_header"
    /\ i < Len(HeadersOfOk)
    /\ buffer' = Append(buffer, Header(HeadersOfOk[i + 1]))
    /\ i' = i + 1
    /\ UNCHANGED <<pc, articles, summary, stats, kw_result, hotspots, wire, raised, handlerRest>>

\* self.end_headers(): the buffered lines and the blank line are written out.
EndHeadersOk ==
    /\ pc = "get_send_header"
    /\ i = Len(HeadersOfOk)
    /\ wire' = wire \o Append(buffer, EndOfHeaders)
    /\ buffer' = <<>>
    /\ pc' = "get_fetch"
    /\ UNCHANGED <<i, articles, summary, stats, kw_result, hotspots, raised, handlerRest>>

\* articles = fetch_news_articles()
FetchNewsArticles ==
    /\ pc = "get_fetch"
    /\ \E list \in SharedLists :
          /\ articles' = list
          /\ pc' = IF Len(list) = 0 THEN "get_respond" ELSE "get_summary"
    /\ UNCHANGED <<i, summary, stats, kw_result, hotspots, httpVars, handlerRest>>

\* summary = generate_summary(articles)
GenerateSummary ==
    /\ pc = "get_summary"
    /\ summary' \in SummaryReturns(articles)
    /\ pc' = "get_videos"
    /\ UNCHANGED <<i, articles, stats, kw_result, hotspots, httpVars, handlerRest>>

\* youtube_videos = fetch_youtube_videos(): the videos come from outside.
FetchYoutubeVideos ==
    /\ pc = "get_videos"
    /\ pc' = "get_statistics"
    /\ UNCHANGED <<i, articles, summary, stats, kw_result, hotspots, httpVars, handlerRest>>

\* statistics = extract_conflict_statistics(articles)
HandlerStatistics ==
    /\ pc = "get_statistics"
    /\ stats' = Alone[articles].statistics
    /\ pc' = "get_keywords"
    /\ UNCHANGED <<i, articles, summary, kw_result, hotspots, httpVars, handlerRest>>

\* trending_keywords = extract_trending_keywords(articles)
HandlerKeywords ==
    /\ pc = "get_keywords"
    /\ \E features \in KwFeatureLists :
          kw_result' = KeywordsFor(Alone[articles].text, 20, fallback_keywords, features)
    /\ pc' = "get_hotspots"
    /\ UNCHANGED <<i, articles, summary, stats, hotspots, httpVars, handlerRest>>

\* geographic_hotspots = extract_geographic_hotspots(articles)
HandlerHotspots ==
    /\ pc = "get_hotspots"
    /\ hotspots' = Alone[articles].hotspots
    /\ pc' = "get_respond"
    /\ UNCHANGED <<i, articles, summary, stats, kw_result, httpVars, handlerRest>>

\* self.wfile.write(json.dumps(response_data).encode())
WriteResponse ==
    /\ pc = "get_respond"
    /\ wire' = Append(wire, Body(IF Len(articles) = 0 THEN NoArticlesData ELSE ResponseData))
    /\ pc' = "get_done"
    /\ UNCHANGED <<i, articles, summary, stats, kw_result, hotspots, buffer, raised, handlerRest>>

\* A statement of the try block raises: control goes to the except branch.
HandlerRaise ==
    /\ pc \in AfterHeaders
    /\ raised' \in HandlerErrors
    /\ pc' = "except_send_response"
    /\ UNCHANGED <<i, articles, summary, stats, kw_result, hotspots, wire, buffer, handlerRest>>

\* self.send_response(500)
SendResponseError ==
    /\ pc = "except_send_response"
    /\ buffer' = buffer \o send_response("500")
    /\ i' = 0
    /\ pc' = "except_send_header"
    /\ UNCHANGED <<articles, summary, stats, kw_result, hotspots, wire, raised, handlerRest>>

\* self.send_header(...), one of the two
SendHeaderError ==
    /\ pc = "except_send_header"
    /\ i < Len(HeadersOfError)
    /\ buffer' = Append(buffer, Header(HeadersOfError[i + 1]))
    /\ i' = i + 1
    /\ UNCHANGED <<pc, articles, summary, stats, kw_result, hotspots, wire, raised, handlerRest>>

\* self.end_headers()
EndHeadersError ==
    /\ pc = "except_send_header"
    /\ i = Len(HeadersOfError)
    /\ wire' = wire \o Append(buffer, EndOfHeaders)
    /\ buffer' = <<>>
    /\ pc' = "except_write"
    /\ UNCHANGED <<i, articles, summary, stats, kw_result, hotspots, raised, handlerRest>>

\* self.wfile.write(json.dumps({'error': str(e)}).encode())
WriteError ==
    /\ pc = "except_write"
    /\ wire' = Append(wire, Body([error |-> raised]))
    /\ pc' = "get_done"
    /\ UNCHANGED <<i, articles, summary, stats, kw_result, hotspots, buffer, raised, handlerRest>>

NextHandler ==
    \/ do_GET
    \/ SendResponseOk
    \/ SendHeaderOk
    \/ EndHeadersOk
    \/ FetchNewsArticles
    \/ GenerateSummary
    \/ FetchYoutubeVideos
    \/ HandlerStatistics
    \/ HandlerKeywords
    \/ HandlerHotspots
    \/ WriteResponse
    \/ HandlerRaise
    \/ SendResponseError
    \/ SendHeaderError
    \/ EndHeadersError
    \/ WriteError

SpecHandler == Init /\ [][NextHandler]_vars

-----------------------------------------------------------------------------
(* get_news: the four extractors on one article list, their steps interleaved *)

\* The locals of the four extractors as a call finds them.
FreshLocals ==
    /\ stats' = InitialStats
    /\ article_deaths' = 0
    /\ article_injuries' = 0
    /\ max_keywords' = 20
    /\ all_text' = ""
    /\ kw_path' = "none"
    /\ kw_result' = <<>>
    /\ seen' = <<>>
    /\ hotspots' = <<>>
    /\ geo_path' = "none"
    /\ titles' = <<>>
    /\ text_list' = <<>>
    /\ target_sentences' = 6
    /\ sum_path' = "none"
    /\ summary' = ""
    /\ candidates' = <<>>
    /\ tfidf_tenths' = <<>>
    /\ selected' = <<>>
    /\ intro' = ""

\* The article list after an extractor has read articles[k]: the reads bind
\* locals (text, title, combined_text, article_text), no key is assigned.
ListAfterRead_TextStored(list, k) == [list EXCEPT ![k].text = PreparedText(list[k])]

ListAfterRead(list, k) == list

\* get_news has its articles and starts the four extractors on them.
SharedCall ==
    /\ pc \in Returned \/ (pc = "shared" /\ finished = Extractors)
    /\ \E list \in SharedLists :
          /\ articles' = list
          /\ given' = list
          /\ n_articles' = Len(list)
    /\ \E pattern \in TfidfPatterns : scoring' = pattern
    /\ progress' = [e \in Extractors |-> 0]
    /\ finished' = {}
    /\ pc' = "shared"
    /\ i' = 0
    /\ article' = NoArticle
    /\ FreshLocals
    /\ UNCHANGED <<repeatVars, relVars, httpVars>>

Running(e) == pc = "shared" /\ e \notin finished /\ progress[e] < Len(articles)

AtEnd(e) == pc = "shared" /\ e \notin finished /\ progress[e] = Len(articles)

Advance(e) ==
    /\ progress' = [progress EXCEPT ![e] = @ + 1]
    /\ articles' = ListAfterRead(articles, progress[e] + 1)
    /\ article' = articles[progress[e] + 1]
    /\ UNCHANGED <<pc, n_articles, i, given, finished, repeatVars, scoring, relVars, httpVars>>

Finish(e) ==
    /\ finished' = finished \cup {e}
    /\ UNCHANGED <<pc, n_articles, i, article, articles, given, progress, repeatVars, scoring, relVars, httpVars>>

SharedStatsStep ==
    /\ Running("statistics")
    /\ article_deaths' = AnalysisOf(articles[progress.statistics + 1]).stats.deaths
    /\ article_injuries' = AnalysisOf(articles[progress.statistics + 1]).stats.injuries
    /\ stats' = StatsAfterArticle(stats, AnalysisOf(articles[progress.statistics + 1]).stats)
    /\ Advance("statistics")
    /\ UNCHANGED <<kwVars, geoVars, sumVars>>

SharedStatsReturn ==
    /\ AtEnd("statistics")
    /\ stats' = FinalStats(stats)
    /\ Finish("statistics")
    /\ UNCHANGED <<article_deaths, article_injuries, kwVars, geoVars, sumVars>>

SharedKwStep ==
    /\ Running("keywords")
    /\ all_text' = AppendArticle(all_text, articles[progress.keywords + 1])
    /\ Advance("keywords")
    /\ UNCHANGED <<max_keywords, kw_path, kw_result, statsVars, geoVars, sumVars>>

SharedKwReturn ==
    /\ AtEnd("keywords")
    /\ IF Len(Strip(all_text)) < MinTextLength
       THEN kw_path' = "insufficient" /\ kw_result' = fallback_keywords
       ELSE IF FitTransformRaises(<<all_text>>)
       THEN kw_path' = "exception" /\ kw_result' = fallback_keywords
       ELSE \E features \in KwFeatureLists :
               /\ kw_path' = TrendingKeywords(features, all_text, max_keywords).path
               /\ kw_result' = TrendingKeywords(features, all_text, max_keywords).result
    /\ Finish("keywords")
    /\ UNCHANGED <<max_keywords, all_text, statsVars, geoVars, sumVars>>

SharedGeoStep ==
    /\ Running("hotspots")
    /\ seen' = Append(seen, articles[progress.hotspots + 1])
    /\ hotspots' = HotspotsAfterArticle(hotspots, AnalysisOf(articles[progress.hotspots + 1]).geo, 1)
    /\ Advance("hotspots")
    /\ UNCHANGED <<geo_path, statsVars, kwVars, sumVars>>

SharedGeoReturn ==
    /\ AtEnd("hotspots")
    /\ geo_path' = IF Len(hotspots) = 0 THEN "default" ELSE "enhanced"
    /\ hotspots' = FinalHotspots(hotspots)
    /\ Finish("hotspots")
    /\ UNCHANGED <<seen, statsVars, kwVars, sumVars>>

SharedSumStep ==
    /\ Running("summary")
    /\ titles' = Append(titles, articles[progress.summary + 1].title)
    /\ text_list' = IF PreparedText(articles[progress.summary + 1]) # ""
                    THEN Append(text_list, PreparedText(articles[progress.summary + 1]))
                    ELSE text_list
    /\ Advance("summary")
    /\ UNCHANGED <<target_sentences, sum_path, summary, candidates, tfidf_tenths,
                   selected, intro, statsVars, kwVars, geoVars>>

SharedSumReturn ==
    /\ AtEnd("summary")
    /\ summary' = SummaryOfLists(Len(articles), titles, text_list, target_sentences, scoring)
    /\ sum_path' = "returned"
    /\ Finish("summary")
    /\ UNCHANGED <<titles, text_list, target_sentences, candidates, tfidf_tenths,
                   selected, intro, statsVars, kwVars, geoVars>>

NextShared ==
    \/ SharedCall
    \/ SharedStatsStep \/ SharedStatsReturn
    \/ SharedKwStep \/ SharedKwReturn
    \/ SharedGeoStep \/ SharedGeoReturn
    \/ SharedSumStep \/ SharedSumReturn

SpecShared == Init /\ [][NextShared]_vars

-----------------------------------------------------------------------------
(* Calls one after the other, the caller free to change what a call returned *)

ArticleTitled(title) == CHOOSE a \in SharedArticles : a.title = title

\* The lists the calls are made with.
RepeatLists ==
    {<<>>,
     <<ArticleTitled("Kashmir")>>,
     <<ArticleTitled("Drone attack"), ArticleTitled("")>>,
     <<ArticleTitled(""), ArticleTitled("Drone attack")>>}

\* The list a call binds to default_hotspots when the previous call bound the
\* list previous: one the previous call keeps across the calls.
DefaultsOfCall_Kept(previous) == IF previous = <<>> THEN default_hotspots ELSE previous

\* The list a call binds to default_hotspots: a list literal, built anew.
DefaultsOfCall(previous) == default_hotspots

\* The list a call binds to fallback_keywords: a list literal, built anew.
FallbackOfCall(previous) == fallback_keywords

\* What the caller makes of a returned hotspot dict and of a returned keyword
\* dict.
TouchedHotspot(d) == [d EXCEPT !.incidents = 0, !.intensity = "low"]

TouchedKeyword(d) == [d EXCEPT !.weight = 0]

\* The caller changes every dict of the returned list value; the dicts of the
\* list object that are in value are the same objects and change with them.
TouchedHotspots(object, value) ==
    [j \in 1..Len(object) |->
        IF \E k \in 1..Len(value) : value[k] = object[j]
        THEN TouchedHotspot(object[j]) ELSE object[j]]

TouchedKeywords(object, value) ==
    [j \in 1..Len(object) |->
        IF \E k \in 1..Len(value) : value[k] = object[j]
        THEN TouchedKeyword(object[j]) ELSE object[j]]

\* The first of a sequence of calls: nothing has been called yet.
RepeatStart ==
    /\ pc \in Returned
    /\ pc' = "repeat"
    /\ \E list \in RepeatLists : tracked' = list
    /\ \E pattern \in TfidfPatterns : scoring' = pattern
    /\ live' = NoObjects
    /\ last_call' = NoCall
    /\ first_result' = <<>>
    /\ n_articles' = 0
    /\ i' = 0
    /\ article' = NoArticle
    /\ FreshLocals
    /\ UNCHANGED <<sharedVars, relVars, httpVars>>

\* The call of extractor e with the list has returned value.
Returns(e, list, value) ==
    /\ last_call' = [extractor |-> e, list |-> list, value |-> value, modified |-> FALSE]
    /\ first_result' = IF list = tracked /\ e \notin DOMAIN first_result
                       THEN first_result @@ (e :> [value |-> value, touched |-> FALSE])
                       ELSE first_result
    /\ UNCHANGED <<pc, n_articles, i, article, statsVars, kwVars, geoVars, sumVars,
                   sharedVars, tracked, scoring, relVars, httpVars>>

RepeatStatistics ==
    /\ pc = "repeat"
    /\ \E list \in RepeatLists : Returns("statistics", list, Alone[list].statistics)
    /\ UNCHANGED live

RepeatKeywords ==
    /\ pc = "repeat"
    /\ live' = [live EXCEPT !.fallback_keywords = FallbackOfCall(@)]
    /\ \E list \in RepeatLists, features \in KwFeatureLists :
          Returns("keywords", list,
                  KeywordsFor(Alone[list].text, 20, live'.fallback_keywords, features))

RepeatHotspots ==
    /\ pc = "repeat"
    /\ live' = [live EXCEPT !.default_hotspots = DefaultsOfCall(@)]
    /\ \E list \in RepeatLists :
          Returns("hotspots", list, ReturnedHotspots(live'.default_hotspots, Alone[list].found))

RepeatSummary ==
    /\ pc = "repeat"
    /\ \E list \in RepeatLists : Returns("summary", list, Alone[list].summary[scoring])
    /\ UNCHANGED live

\* The caller changes the dicts of the list the last call returned.
CallerModifies ==
    /\ pc = "repeat"
    /\ last_call.extractor \in {"hotspots", "keywords"}
    /\ ~last_call.modified
    /\ IF last_call.extractor = "hotspots"
       THEN /\ last_call' = [last_call EXCEPT
                                !.value = TouchedHotspots(@, @),
                                !.modified = TRUE]
            /\ live' = [live EXCEPT
                           !.default_hotspots = TouchedHotspots(@, last_call.value)]
       ELSE /\ last_call' = [last_call EXCEPT
                                !.value = TouchedKeywords(@, @),
                                !.modified = TRUE]
            /\ live' = [live EXCEPT
                           !.fallback_keywords = TouchedKeywords(@, last_call.value)]
    /\ first_result' = IF last_call.extractor \in DOMAIN first_result
                       THEN [first_result EXCEPT ![last_call.extractor].touched = TRUE]
                       ELSE first_result
    /\ UNCHANGED <<pc, n_articles, i, article, statsVars, kwVars, geoVars, sumVars,
                   sharedVars, tracked, scoring, relVars, httpVars>>

NextRepeated ==
    \/ RepeatStart
    \/ RepeatStatistics \/ RepeatKeywords \/ RepeatHotspots \/ RepeatSummary
    \/ CallerModifies

SpecRepeated == Init /\ [][NextRepeated]_vars

-----------------------------------------------------------------------------
(* Properties of extract_conflict_statistics *)

InStats == pc \in {"stats_loop", "stats_done"}

\* C1: total_casualties == deaths + injuries, in the returned report and in
\* the running totals after every article of the loop.
C1_TotalIsDeathsPlusInjuries ==
    InStats => stats.total_casualties = stats.deaths + stats.injuries

\* A report over two articles or more with deaths and with injuries.
C1_Witness ==
    /\ pc = "stats_done"
    /\ i >= 2
    /\ stats.deaths > 0
    /\ stats.injuries > 0
    /\ stats.total_casualties = stats.deaths + stats.injuries

\* C2: each category counter rises by at most one per article, so none of the
\* three exceeds the number of articles processed (key_developments).
C2_CategoryCountersAtMostArticles ==
    InStats =>
        /\ stats.key_developments = i
        /\ stats.military_incidents  \in 0..stats.key_developments
        /\ stats.diplomatic_meetings \in 0..stats.key_developments
        /\ stats.border_violations   \in 0..stats.key_developments

\* Every article so far held three military keywords (drone, attack, missile)
\* and counted once.
C2_Witness ==
    /\ pc = "stats_loop"
    /\ i >= 2
    /\ article = [title |-> "Drone attack", text |-> "missile attack near the border"]
    /\ stats.military_incidents = i
    /\ stats.border_violations = i

\* C3: an article whose only casualty phrase is "six killed" and one whose only
\* casualty phrase is "6 killed" each add exactly 6 to deaths and to
\* total_casualties.
C3_WordAndDigitAgree ==
    (InStats /\ i >= 1 /\ Lower(article.text) \in {"six killed", "6 killed"}) =>
        /\ article_deaths = 6
        /\ article_injuries = 0
        /\ (i = 1 => stats.deaths = 6 /\ stats.total_casualties = 6)

\* "Six killed" after another article that added 6: 12 deaths in all.
C3_Witness ==
    /\ pc = "stats_loop"
    /\ i = 2
    /\ article.text = "Six killed"
    /\ article_deaths = 6
    /\ stats.deaths = 12
    /\ stats.total_casualties = 12

\* C4: the report of the empty list: every counter 0, no economic figure, both
\* levels "Low".
C4_EmptyListReport ==
    (pc = "stats_done" /\ n_articles = 0) =>
        /\ stats.deaths = 0
        /\ stats.injuries = 0
        /\ stats.total_casualties = 0
        /\ stats.military_incidents = 0
        /\ stats.diplomatic_meetings = 0
        /\ stats.border_violations = 0
        /\ stats.key_developments = 0
        /\ stats.economic_impact = <<>>
        /\ stats.diplomatic_activity_level = "Low"
        /\ stats.conflict_intensity = "Low"

C4_Witness == pc = "stats_done" /\ n_articles = 0 /\ i = 0

\* The texts whose only casualty phrase is written with a number word, and the
\* same text with the digits of the number.
DigitForm ==
    [word_text \in {"Six killed", "killed six", "death toll of twelve",
                    "at least six killed", "seven injured", "at least seven injured"} |->
        CASE word_text = "Six killed"             -> "6 killed"
          [] word_text = "killed six"             -> "killed 6"
          [] word_text = "death toll of twelve"   -> "death toll of 12"
          [] word_text = "at least six killed"    -> "at least 6 killed"
          [] word_text = "seven injured"          -> "7 injured"
          [] word_text = "at least seven injured" -> "at least 7 injured"]

DigitTwin(a) == [title |-> a.title, text |-> DigitForm[a.text]]

\* C16, as claimed: an article whose casualty phrase is written with a number
\* word adds the same deaths and the same injuries as the article with the
\* phrase written in digits, in each phrase family.
C16_WordFormCountsAsDigitForm ==
    (InStats /\ i > 0 /\ article.text \in DOMAIN DigitForm) =>
        /\ article_deaths = ArticleAnalysis[DigitTwin(article)].deaths
        /\ article_injuries = ArticleAnalysis[DigitTwin(article)].injuries

\* The value of one match: int(match) of digits, the number of a number word.
MatchValue(match) ==
    IF IsDigitString(match) THEN ParseInt(match)
    ELSE NumberOrZero(convert_word_to_number(match))

MatchTotal(matches) ==
    IF Len(matches) = 0 THEN 0
    ELSE LET partial[j \in 0..Len(matches)] ==
                 IF j = 0 THEN 0 ELSE partial[j - 1] + MatchValue(matches[j])
         IN partial[Len(matches)]

\* The sums, over the death families and over the injury families, of the
\* values of all the matches m of the patterns on one text.
TotalsOf(m) ==
    [deaths   |-> MatchTotal(m.death_matches1) + MatchTotal(m.death_matches2)
                  + MatchTotal(m.death_matches3) + MatchTotal(m.death_matches4)
                  + MatchTotal(m.death_matches5) + MatchTotal(m.death_matches6),
     injuries |-> MatchTotal(m.injury_matches1) + MatchTotal(m.injury_matches2)
                  + MatchTotal(m.injury_matches3) + MatchTotal(m.injury_matches4)]

FamilyTotals == [a \in StatsArticles |-> TotalsOf(Findings(CombinedText(a)))] @@ <<>>

\* C17: the deaths and the injuries of an article are the sums of the values
\* of all matches of all families of the class, a span matched by two families
\* counted twice: "at least 6 killed" and "at least six killed" give 12 deaths,
\* "at least 7 injured" gives 14 injuries.
C17_AllFamiliesSummed ==
    (InStats /\ i > 0) =>
        /\ article_deaths = FamilyTotals[article].deaths
        /\ article_injuries = FamilyTotals[article].injuries
        /\ article.text \in {"at least 6 killed", "at least six killed"} =>
              (article_deaths = 12 /\ article_injuries = 0)
        /\ article.text = "at least 7 injured" =>
              (article_deaths = 0 /\ article_injuries = 14)

C17_Witness ==
    /\ pc = "stats_loop"
    /\ i > 0
    /\ article.text = "at least 6 killed"
    /\ article_deaths = 12
    /\ stats.deaths >= 12

-----------------------------------------------------------------------------
(* Properties of extract_trending_keywords *)

\* The characters of the titles and texts combined so far: the loop adds two
\* blanks per article to them.
TitleTextChars == Len(all_text) - 2 * i

Texts(entries)   == [j \in 1..Len(entries) |-> entries[j].text]
Weights(entries) == [j \in 1..Len(entries) |-> entries[j].weight]

\* C5: for the empty list and for every list whose titles and texts have
\* under 100 characters together, the result is the fallback list: 12 entries,
\* Pakistan .. Nuclear, weights 100, 95, 80, 70, 60, 55, 50, 45, 42, 40, 38, 35.
C5_ShortInputGivesFallback ==
    (pc = "kw_done" /\ TitleTextChars < 100) =>
        /\ Len(kw_result) = 12
        /\ Texts(kw_result) =
              <<"Pakistan", "India", "Kashmir", "Conflict", "Military", "Border",
                "Diplomatic", "Security", "Taliban", "China", "Afghanistan", "Nuclear">>
        /\ Weights(kw_result) =
              <<100 * WeightUnit, 95 * WeightUnit, 80 * WeightUnit, 70 * WeightUnit,
                60 * WeightUnit, 55 * WeightUnit, 50 * WeightUnit, 45 * WeightUnit,
                42 * WeightUnit, 40 * WeightUnit, 38 * WeightUnit, 35 * WeightUnit>>

\* Two articles or more with some text, still under 100 characters.
C5_Witness ==
    /\ pc = "kw_done"
    /\ i >= 2
    /\ TitleTextChars \in 50..99
    /\ kw_path = "insufficient"
    /\ Len(kw_result) = 12

\* C6, as claimed: the result never has more than max_keywords entries.
C6_AtMostMaxKeywords ==
    pc = "kw_done" => Len(kw_result) <= max_keywords

\* C7: every returned entry has a weight in 0..100 and a frequency >= 0, and
\* the weights never increase along the list.
C7_WeightsBoundedAndDescending ==
    pc = "kw_done" =>
        /\ \A j \in 1..Len(kw_result) :
              /\ kw_result[j].weight \in 0..(100 * WeightUnit)
              /\ kw_result[j].frequency >= 0
        /\ \A j \in 1..(Len(kw_result) - 1) :
              kw_result[j].weight >= kw_result[j + 1].weight

\* A text of 100 characters or more went through the vectorizer.
C7_Witness ==
    /\ pc = "kw_done"
    /\ Len(Strip(all_text)) >= MinTextLength
    /\ kw_path \in {"exception", "extracted"}
    /\ Len(kw_result) > 0

\* C14, as claimed, for extract_trending_keywords: whatever the articles, with
\* or without their title and text keys, no call ends with an exception.
C14_NoCallRaises == pc # "kw_raised"

\* The keys of the report that count.
CountKeys ==
    {"deaths", "injuries", "total_casualties", "military_incidents", "diplomatic_meetings",
     "border_violations", "key_developments"}

\* C25: every count of the report for A followed by B is the sum of the
\* counts of the reports for A and for B, and its economic_impact is that of
\* A followed by that of B, every figure kept.
C25_ReportsAddUp ==
    pc = "concat_done" =>
        /\ \A k \in CountKeys : run_ab.result[k] = run_a.result[k] + run_b.result[k]
        /\ run_ab.result.economic_impact
              = run_a.result.economic_impact \o run_b.result.economic_impact

\* Both lists have an article, both reports hold the same economic figure,
\* one has deaths and the other injuries.
C25_Witness ==
    /\ pc = "concat_done"
    /\ Len(run_a.articles) >= 1
    /\ Len(run_b.articles) >= 1
    /\ run_a.result.deaths > 0
    /\ run_b.result.injuries > 0
    /\ \E j \in 1..Len(run_a.result.economic_impact) :
          \E k \in 1..Len(run_b.result.economic_impact) :
             run_a.result.economic_impact[j] = run_b.result.economic_impact[k]
    /\ run_ab.result.total_casualties
          = run_a.result.total_casualties + run_b.result.total_casualties

\* C21, as claimed: when the combined text has at least 100 characters the
\* TF-IDF step over the single document completes without error, so the
\* result never comes from the except branch.
C21_TfidfStepCompletes ==
    (pc = "kw_done" /\ Len(Strip(all_text)) >= MinTextLength) => kw_path # "exception"

-----------------------------------------------------------------------------
(* Properties of extract_geographic_hotspots *)

InGeo == pc \in {"geo_loop", "geo_done"}

\* The names of the known locations whose key an article's lower-cased title
\* and text hold, and the number of distinct conflict keywords they hold.
LocationNamesIn ==
    [a \in GeoArticles |->
        {known_locations[j].name : j \in {k \in 1..Len(known_locations) :
                                            Contains(GeoText(a), known_locations[k].key)}}] @@ <<>>

ConflictKeywordsIn ==
    [a \in GeoArticles |->
        Cardinality({j \in 1..Len(conflict_keywords) :
                        Contains(GeoText(a), conflict_keywords[j])})] @@ <<>>

NoLocationSeen == \A j \in 1..Len(seen) : LocationNamesIn[seen[j]] = {}

Names(hs) == [j \in 1..Len(hs) |-> hs[j].name]

\* C8: for the empty list, and for every list none of whose articles holds a
\* key of known_locations, the result is the three defaults in their order:
\* Kashmir high 3, Line of Control medium 2, Balochistan low 1.
C8_NoLocationGivesDefaults ==
    (pc = "geo_done" /\ NoLocationSeen) =>
        /\ Names(hotspots) = <<"Kashmir", "Line of Control", "Balochistan">>
        /\ [j \in 1..Len(hotspots) |-> hotspots[j].intensity] = <<"high", "medium", "low">>
        /\ [j \in 1..Len(hotspots) |-> hotspots[j].incidents] = <<3, 2, 1>>

\* Two articles or more, one of them with conflict keywords, none with a location.
C8_Witness ==
    /\ pc = "geo_done"
    /\ Len(seen) >= 2
    /\ NoLocationSeen
    /\ \E j \in 1..Len(seen) : ConflictKeywordsIn[seen[j]] > 0
    /\ geo_path = "default"
    /\ Len(hotspots) = 3

\* C9: for a single article with k distinct conflict keywords, every location
\* it mentions has a hotspot with incidents k and intensity high for k >= 3,
\* medium for k in 1..2, low for k = 0; "Kashmir" with attack and killed gives
\* a Kashmir hotspot of intensity medium with 2 incidents.
C9_SingleArticleIntensity ==
    (pc = "geo_done" /\ n_articles = 1) =>
        /\ \A name \in LocationNamesIn[seen[1]] :
              \E j \in 1..Len(hotspots) :
                  /\ hotspots[j].name = name
                  /\ hotspots[j].incidents = ConflictKeywordsIn[seen[1]]
                  /\ hotspots[j].intensity =
                        (IF ConflictKeywordsIn[seen[1]] >= 3 THEN "high"
                         ELSE IF ConflictKeywordsIn[seen[1]] \in 1..2 THEN "medium"
                         ELSE "low")
        /\ seen[1] = [title |-> "Kashmir", text |-> "attack killed"] =>
              \E j \in 1..Len(hotspots) :
                  /\ hotspots[j].name = "Kashmir"
                  /\ hotspots[j].intensity = "medium"
                  /\ hotspots[j].incidents = 2

C9_Witness ==
    /\ pc = "geo_done"
    /\ n_articles = 1
    /\ seen = <<[title |-> "Kashmir", text |-> "attack killed"]>>
    /\ hotspots[1].name = "Kashmir"
    /\ hotspots[1].intensity = "medium"
    /\ hotspots[1].incidents = 2

\* C10: no two entries of the hotspot list have the same name, after every
\* article of the loop and in the returned list.
C10_NoDuplicateNames ==
    InGeo => \A j, k \in 1..Len(hotspots) : j # k => hotspots[j].name # hotspots[k].name

\* Two articles that both mention Kashmir, and the defaults filled in.
C10_Witness ==
    /\ pc = "geo_done"
    /\ Len(seen) >= 2
    /\ "Kashmir" \in LocationNamesIn[seen[1]]
    /\ "Kashmir" \in LocationNamesIn[seen[2]]
    /\ geo_path = "enhanced"
    /\ Len(hotspots) >= 3

\* low < medium < high
Level(intensity) ==
    CASE intensity = "low" -> 1 [] intensity = "medium" -> 2 [] intensity = "high" -> 3

\* The level of the intensity of one article with k conflict keywords.
LevelOfCount(k) == IF k >= 3 THEN 3 ELSE IF k >= 1 THEN 2 ELSE 1

\* The positions of seen whose article mentions the location of that name.
Mentions(name) == {j \in 1..Len(seen) : name \in LocationNamesIn[seen[j]]}

Mentioned(hs) == {j \in 1..Len(hs) : Mentions(hs[j].name) # {}}

\* C18: a loop iteration leaves the intensity of an existing hotspot or
\* raises it on low < medium < high, and the intensity of a hotspot found in
\* the articles is the highest of the intensities of the articles that
\* mention it.
C18_IntensityOnlyRises ==
    /\ [][(pc = "geo_loop" /\ pc' = "geo_loop") =>
             \A j \in 1..Len(hotspots) :
                 /\ hotspots'[j].name = hotspots[j].name
                 /\ Level(hotspots'[j].intensity) >= Level(hotspots[j].intensity)]_vars
    /\ [](InGeo =>
             \A j \in Mentioned(hotspots) :
                 \E m \in Mentions(hotspots[j].name) :
                     /\ Level(hotspots[j].intensity) = LevelOfCount(ConflictKeywordsIn[seen[m]])
                     /\ \A n \in Mentions(hotspots[j].name) :
                            LevelOfCount(ConflictKeywordsIn[seen[n]])
                                <= LevelOfCount(ConflictKeywordsIn[seen[m]]))

\* Kashmir mentioned with twelve keywords, then with one, then with none: high.
C18_Witness ==
    /\ pc = "geo_done"
    /\ Len(seen) = 3
    /\ \A j \in 1..3 : "Kashmir" \in LocationNamesIn[seen[j]]
    /\ ConflictKeywordsIn[seen[1]] = 12
    /\ ConflictKeywordsIn[seen[2]] \in 1..2
    /\ ConflictKeywordsIn[seen[3]] = 0
    /\ hotspots[1].name = "Kashmir"
    /\ hotspots[1].intensity = "high"

\* The sum of ConflictKeywordsIn over the articles at the positions of a set.
RECURSIVE KeywordSum(_)
KeywordSum(positions) ==
    IF positions = {} THEN 0
    ELSE LET m == CHOOSE m \in positions : TRUE
         IN ConflictKeywordsIn[seen[m]] + KeywordSum(positions \ {m})

\* C19: the incidents of a hotspot found in the articles are the sum, over the
\* articles that mention it, of the number of distinct conflict keywords of
\* the article; an iteration adds at most 12 and never lowers the count.
C19_IncidentsAccumulate ==
    /\ [][(pc = "geo_loop" /\ pc' = "geo_loop") =>
             \A j \in 1..Len(hotspots) :
                 /\ hotspots'[j].incidents >= hotspots[j].incidents
                 /\ hotspots'[j].incidents <= hotspots[j].incidents + 12]_vars
    /\ [](InGeo =>
             \A j \in Mentioned(hotspots) :
                 hotspots[j].incidents = KeywordSum(Mentions(hotspots[j].name)))

\* Lahore mentioned twice, once by an article that has "attack" two times.
C19_Witness ==
    /\ pc = "geo_done"
    /\ Len(seen) >= 2
    /\ seen[1].text = "Attack after attack in Lahore"
    /\ "Lahore" \in LocationNamesIn[seen[2]]
    /\ \E j \in 1..Len(hotspots) :
          /\ hotspots[j].name = "Lahore"
          /\ hotspots[j].incidents = 2 * ConflictKeywordsIn[seen[1]]
          /\ hotspots[j].incidents > 0

DefaultNames == {default_hotspots[j].name : j \in 1..Len(default_hotspots)}

\* C11: the returned list has a hotspot of each default name, and every entry
\* the loop built from the articles is returned as the loop left it, a
\* default of the same name neither replacing nor changing it.
C11_DefaultsPresentFoundKept ==
    [][(pc = "geo_loop" /\ pc' = "geo_done") =>
          /\ DefaultNames = {"Kashmir", "Line of Control", "Balochistan"}
          /\ DefaultNames \subseteq {hotspots'[j].name : j \in 1..Len(hotspots')}
          /\ \A j \in 1..Len(hotspots) : hotspots'[j] = hotspots[j]]_vars

\* Kashmir found with no conflict keyword: its entry stays low with 0
\* incidents, beside the appended defaults.
C11_Witness ==
    /\ pc = "geo_done"
    /\ geo_path = "enhanced"
    /\ \A j \in 1..Len(seen) : LocationNamesIn[seen[j]] = {"Kashmir"}
    /\ hotspots[1].name = "Kashmir"
    /\ hotspots[1].intensity = "low"
    /\ hotspots[1].incidents = 0
    /\ Len(hotspots) = 3

\* The name, intensity and incidents of the entries of a hotspot list.
Content(hs) ==
    {[name |-> hs[j].name, intensity |-> hs[j].intensity, incidents |-> hs[j].incidents] :
        j \in 1..Len(hs)}

\* C26: for a list of articles and any permutation of it the two results hold
\* the same hotspot names, each with the same intensity and the same incidents
\* in both, no name twice.
C26_SameContentInAnyOrder ==
    pc = "perm_done" =>
        /\ Content(run_a.result) = Content(run_b.result)
        /\ Len(run_a.result) = Len(run_b.result)
        /\ Cardinality({run_a.result[j].name : j \in 1..Len(run_a.result)}) = Len(run_a.result)

\* Kashmir read first with no conflict keyword in one order and Lahore read
\* first in the other: Kashmir is high in both, the entries in another order.
C26_Witness ==
    /\ pc = "perm_done"
    /\ Len(run_a.articles) = 3
    /\ run_a.articles[1] = [title |-> "Kashmir", text |-> ""]
    /\ run_b.articles[1] = [title |-> "", text |-> "Attack after attack in Lahore"]
    /\ run_a.result[1].name = "Kashmir"
    /\ run_a.result[1].intensity = "high"
    /\ run_b.result[1].name = "Lahore"
    /\ run_a.result # run_b.result

-----------------------------------------------------------------------------
(* Properties of generate_free_summary *)

\* C12, as claimed: for a non-empty article list the summary is a non-empty
\* string whose last character is '.', '!' or '?'.
C12_SummaryEndsWithTerminal ==
    (pc = "sum_done" /\ n_articles > 0) => (summary # "" /\ EndsWithTerminal(summary))

\* C20, as claimed: for a non-empty article list with no key sentence, texts
\* all empty or blank included, the summary is the opener of the titles
\* followed by the closing clause.
C20_NoKeySentencesGivesOpenerAndClosing ==
    (pc = "sum_done" /\ n_articles > 0 /\ Sentences(Join(text_list, " ")) = <<>>) =>
        summary = generate_context_intro(titles) \o ClosingClause

\* 1800 times the combined score of each candidate as the claim gives it:
\* 0.4 * lexical + 0.3 * keyword + 0.2 * position + 0.1 * length, the lexical,
\* position and length scores in tenths, the keyword score a count out of 18.
ScoresOfCandidates ==
    [m \in 1..Len(candidates) |->
        (4 * 18 * tfidf_tenths[m])
        + (3 * 10 * KeywordCount(Lower(candidates[m])))
        + (2 * 18 * PositionScore(m - 1, Len(candidates)))
        + (1 * 18 * LengthScore(WordCount(candidates[m])))] @@ <<>>

\* The pair (score, text) of candidate m is greater than that of candidate o.
PairGreater(scores, m, o) ==
    \/ scores[m] > scores[o]
    \/ scores[m] = scores[o] /\ StrLess(candidates[o], candidates[m])

\* The candidates with a greater pair than candidate m, and those with a pair
\* that is not smaller.
GreaterThan(scores, m) == {o \in 1..Len(candidates) : PairGreater(scores, o, m)}

NotSmallerThan(scores, m) == {o \in 1..Len(candidates) : ~PairGreater(scores, m, o)}

\* Position j of the key sentences holds a candidate with fewer than j
\* candidates above it and at least j candidates at or above it.
LargestPairsInOrder(scores) ==
    \A j \in 1..Len(selected) :
       \E m \in 1..Len(candidates) :
          /\ candidates[m] = selected[j]
          /\ Cardinality(GreaterThan(scores, m)) < j
          /\ j <= Cardinality(NotSmallerThan(scores, m))

\* C22: with 3 candidate sentences or more, the key sentences are min(N,
\* number of candidates) many, and position j holds a candidate whose (combined
\* score, text) pair has fewer than j candidates above it and at least j
\* candidates at or above it: the list descends by the pair and no omitted
\* candidate has a greater pair than a returned one.
C22_KeySentencesAreTheLargestPairs ==
    (pc = "sum_done" /\ Len(candidates) >= 3) =>
        /\ Len(selected) = IF target_sentences < Len(candidates)
                           THEN target_sentences ELSE Len(candidates)
        /\ LargestPairsInOrder(ScoresOfCandidates)

SameScoreOtherText(scores) ==
    \E m, o \in 1..Len(candidates) : scores[m] = scores[o] /\ candidates[m] # candidates[o]

\* Fewer key sentences than candidates, not the first candidates in their
\* order, and two candidates with the same score and different texts.
C22_Witness ==
    /\ pc = "sum_done"
    /\ Len(candidates) >= 3
    /\ Len(selected) = target_sentences
    /\ Len(selected) < Len(candidates)
    /\ selected # SubSeq(candidates, 1, Len(selected))
    /\ SameScoreOtherText(ScoresOfCandidates)

\* The word w is in the joined lowercase titles.
InTitles(w) == Contains(Lower(Join(titles, " ")), w)

Theme1 == InTitles("ceasefire") \/ InTitles("peace")
Theme2 == InTitles("attack") \/ InTitles("missile") \/ InTitles("drone")
Theme3 == InTitles("china") /\ (InTitles("afghanistan") \/ InTitles("taliban"))
Theme4 == InTitles("taliban")
Theme5 == InTitles("china")

\* C24: generate_context_intro returns the opener of the first of the five
\* conditions, taken in their order, that holds of the joined lowercase
\* titles, and the generic opener if none holds; peace with attack gives the
\* diplomatic opener, china with taliban the regional one.
C24_FirstConditionWins ==
    pc = "intro_done" =>
        /\ Theme1 => intro = DiplomaticOpener
        /\ (~Theme1 /\ Theme2) => intro = MilitaryOpener
        /\ (~Theme1 /\ ~Theme2 /\ Theme3) => intro = RegionalOpener
        /\ (~Theme1 /\ ~Theme2 /\ ~Theme3 /\ Theme4) => intro = TalibanOpener
        /\ (~Theme1 /\ ~Theme2 /\ ~Theme3 /\ ~Theme4 /\ Theme5) => intro = ChinaOpener
        /\ (~Theme1 /\ ~Theme2 /\ ~Theme3 /\ ~Theme4 /\ ~Theme5) => intro = GenericOpener
        /\ (InTitles("peace") /\ InTitles("attack")) => intro = DiplomaticOpener

\* Two titles, china in one and taliban in the other: the regional opener.
C24_Witness ==
    /\ pc = "intro_done"
    /\ Len(titles) = 2
    /\ titles[1] = "China trade"
    /\ titles[2] = "Taliban advance"
    /\ intro = RegionalOpener

Trimmed(fragments) == [j \in 1..Len(fragments) |-> Strip(fragments[j])]

AtLeastTwenty(fragment) == Len(fragment) >= 20

\* C23, as claimed: the candidate sentences are the fragments between the runs
\* of '.', '!' and '?' whose trimmed length is at least 20, trimmed.
C23_FragmentsOfTwentyOrMoreKept ==
    (pc = "sum_done" /\ Len(text_list) > 0) =>
        candidates = SelectSeq(Trimmed(SplitSentences(Join(text_list, " "))), AtLeastTwenty)

-----------------------------------------------------------------------------
(* Properties of the four extractors on one article list *)

\* What extract_trending_keywords can return for the list when it runs alone.
KeywordsAlone(list) ==
    {KeywordsFor(Alone[list].text, 20, fallback_keywords, features) : features \in KwFeatureLists}

\* C15: while the four extractors run on the same article list, their steps
\* interleaved in any order, the list and every article record stay as they
\* were given, and each extractor that has returned has returned what it
\* returns when it runs alone on that list.
C15_InputUnchangedResultsAsAlone ==
    pc = "shared" =>
        /\ articles = given
        /\ ("statistics" \in finished => stats = Alone[given].statistics)
        /\ ("keywords" \in finished => kw_result \in KeywordsAlone(given))
        /\ ("hotspots" \in finished => hotspots = Alone[given].hotspots)
        /\ ("summary" \in finished => summary = Alone[given].summary[scoring])

\* The four have returned on a list of two articles or more, one of them with
\* a text the summary loop strips, with deaths counted and a hotspot found.
C15_Witness ==
    /\ pc = "shared"
    /\ finished = Extractors
    /\ Len(articles) >= 2
    /\ \E k \in 1..Len(articles) : PreparedText(articles[k]) # articles[k].text
    /\ stats.deaths > 0
    /\ Len(hotspots) > Len(default_hotspots)
    /\ Len(text_list) > 0

-----------------------------------------------------------------------------
(* Properties of calls one after the other *)

\* C13: in any sequence of calls of the four extractors, a call with the
\* tracked article list returns the value the first call of that extractor
\* with that list returned, whatever was called in between and whatever the
\* caller did to the dicts of an earlier result.
C13_SameAsFirstCall ==
    (/\ pc = "repeat"
     /\ last_call.extractor \in DOMAIN first_result
     /\ last_call.list = tracked
     /\ ~last_call.modified)
    => last_call.value = first_result[last_call.extractor].value

\* A later call of extract_geographic_hotspots with the tracked list, after
\* the caller changed the dicts of an earlier result, returns default dicts.
C13_Witness ==
    /\ pc = "repeat"
    /\ last_call.extractor = "hotspots"
    /\ last_call.list = tracked
    /\ ~last_call.modified
    /\ "hotspots" \in DOMAIN first_result
    /\ first_result.hotspots.touched
    /\ live.fallback_keywords # <<>>
    /\ \E j \in 1..Len(last_call.value) : last_call.value[j] = default_hotspots[2]
    /\ last_call.value = first_result.hotspots.value

-----------------------------------------------------------------------------
(* Properties of handler.do_GET *)

\* The places of the status lines among what was written to the connection.
StatusLines(written) == {j \in 1..Len(written) : written[j].kind = "status"}

\* C27: in every execution of do_GET exactly one status line is sent, before
\* any body bytes; when a statement of the try block raised, that line is the
\* 500 and no 200 status was sent earlier for the request.
C27_OneStatusLineBeforeBody ==
    /\ Cardinality(StatusLines(wire)) <= 1
    /\ \A j \in 1..Len(wire) :
          wire[j].kind = "body" => \E k \in StatusLines(wire) : k < j
    /\ pc = "get_done" =>
          /\ Cardinality(StatusLines(wire)) = 1
          /\ raised # "none" => \A j \in StatusLines(wire) : wire[j].value = "500"

====
